---------------------------- MODULE Spec2Model ----------------------------
(***************************************************************************)
(* ClauseWise: the text-analysis core (clause segmentation, clause         *)
(* simplification, document classification) and the memoized client of the *)
(* text-completion service, modelled from src/utils/*.py.                  *)
(*                                                                         *)
(* Python str values are TLA+ strings; TLC evaluates Len, SubSeq and \o on *)
(* them, so str operations (lower, strip, split, find, slicing) and the    *)
(* regular expressions of the source are computed character by character.  *)
(***************************************************************************)
EXTENDS Integers, Sequences, FiniteSets, TLC

---------------------------------------------------------------------------
(* Python str primitives.                                                  *)

\* f itself.  TLC evaluates a function [x \in S |-> e] anew at every
\* application unless it has been compared once; Eager makes it a table.
Eager(f) == IF f = f THEN f ELSE f

Min(a, b) == IF a < b THEN a ELSE b
Max(a, b) == IF a > b THEN a ELSE b

\* s[i] for a 1-based index, "" outside the string.
CharAt(s, i) == IF i >= 1 /\ i <= Len(s) THEN SubSeq(s, i, i) ELSE ""

UpperLetters == "ABCDEFGHIJKLMNOPQRSTUVWXYZ"
LowerLetters == "abcdefghijklmnopqrstuvwxyz"
DigitChars == {"0", "1", "2", "3", "4", "5", "6", "7", "8", "9"}
UpperSet == {SubSeq(UpperLetters, i, i) : i \in 1..26}
LowerSet == {SubSeq(LowerLetters, i, i) : i \in 1..26}
LetterSet == UpperSet \cup LowerSet
\* The characters str.strip(), str.split() and the regex class \s treat as
\* whitespace, among the characters the modelled inputs are made of.
SpaceSet == {" ", "\t", "\n", "\r"}

LowerChar(c) ==
    IF c \in UpperSet
    THEN LET i == CHOOSE j \in 1..26 : SubSeq(UpperLetters, j, j) = c
         IN SubSeq(LowerLetters, i, i)
    ELSE c

UpperChar(c) ==
    IF c \in LowerSet
    THEN LET i == CHOOSE j \in 1..26 : SubSeq(LowerLetters, j, j) = c
         IN SubSeq(UpperLetters, i, i)
    ELSE c

\* str.lower(): every character lowered (halving keeps the recursion shallow).
RECURSIVE str_lower(_)
str_lower(s) ==
    IF Len(s) = 0 THEN ""
    ELSE IF Len(s) = 1 THEN LowerChar(s)
    ELSE LET h == Len(s) \div 2
         IN str_lower(SubSeq(s, 1, h)) \o str_lower(SubSeq(s, h + 1, Len(s)))

\* str.title(): the first letter of every run of letters in upper case, the
\* rest in lower case.
RECURSIVE TitleFrom(_, _)
TitleFrom(s, i) ==
    IF i > Len(s) THEN ""
    ELSE LET c == CharAt(s, i)
             p == CharAt(s, i - 1)
         IN (IF p \in LetterSet THEN LowerChar(c) ELSE UpperChar(c))
            \o TitleFrom(s, i + 1)
str_title(s) == TitleFrom(s, 1)

\* str.strip(): without leading and trailing whitespace.
str_strip(s) ==
    LET n == Len(s)
        body == {i \in 1..n : CharAt(s, i) \notin SpaceSet}
    IN IF body = {} THEN ""
       ELSE LET a == CHOOSE i \in body : \A j \in body : i <= j
                b == CHOOSE i \in body : \A j \in body : i >= j
            IN SubSeq(s, a, b)

\* A variant that splits at single spaces only (s.split(' ')).
WordCount_by_spaces(s) ==
    Cardinality({i \in 1..Len(s) : CharAt(s, i) = " "}) + 1

\* len(s.split()): the number of maximal runs of non-whitespace characters.
WordCount(s) ==
    Cardinality({i \in 1..Len(s) :
        /\ CharAt(s, i) \notin SpaceSet
        /\ (i = 1 \/ CharAt(s, i - 1) \in SpaceSet)})

\* `k in s`: k occurs in s as a substring.
str_in(k, s) ==
    \E i \in 1..(Len(s) - Len(k) + 1) : SubSeq(s, i, i + Len(k) - 1) = k

\* s.find(k): the 1-based index of the first occurrence of k in s, 0 if none.
str_find(k, s) ==
    IF str_in(k, s)
    THEN CHOOSE i \in 1..(Len(s) - Len(k) + 1) :
            /\ SubSeq(s, i, i + Len(k) - 1) = k
            /\ \A j \in 1..(i - 1) : SubSeq(s, j, j + Len(k) - 1) # k
    ELSE 0

\* s.replace(' ', ''): s without its space characters.
RECURSIVE str_nospace(_)
str_nospace(s) ==
    IF Len(s) = 0 THEN ""
    ELSE IF Len(s) = 1 THEN (IF s = " " THEN "" ELSE s)
    ELSE LET h == Len(s) \div 2
         IN str_nospace(SubSeq(s, 1, h)) \o str_nospace(SubSeq(s, h + 1, Len(s)))

\* s[:n] for any integer n (a negative n counts from the end).
SliceTo(s, n) ==
    IF n >= 0 THEN SubSeq(s, 1, Min(n, Len(s)))
    ELSE SubSeq(s, 1, Max(Len(s) + n, 0))

\* s repeated n times (by halving: the recursion stays shallow).
RECURSIVE Rep(_, _)
Rep(s, n) ==
    IF n <= 0 THEN ""
    ELSE IF n = 1 THEN s
    ELSE LET h == Rep(s, n \div 2)
         IN IF n % 2 = 0 THEN h \o h ELSE h \o h \o s

\* The concatenation of a sequence of strings with sep between them.
RECURSIVE Join(_, _)
Join(ss, sep) ==
    IF Len(ss) = 0 THEN ""
    ELSE IF Len(ss) = 1 THEN ss[1]
    ELSE ss[1] \o sep \o Join(Tail(ss), sep)

---------------------------------------------------------------------------
(* Python's re: a backtracking matcher.  A pattern is a sequence of nodes; *)
(* M tries the alternatives in the order the re module tries them (greedy  *)
(* quantifiers longest first, alternations left to right) and returns the  *)
(* first match found.  Positions are 1-based; `end` is the position after  *)
(* the match, m[2g-1] and m[2g] the bounds of capture group g.             *)

NMarks == 6
NoMarks == [i \in 1..NMarks |-> 0]
Fail == [ok |-> FALSE, end |-> 0, m |-> NoMarks]

\* Pattern nodes.
Cls(s, neg, min, max) == [k |-> "cls", s |-> s, neg |-> neg, min |-> min, max |-> max]
One(s) == Cls(s, FALSE, 1, 1)             \* [s]
Plus(s) == Cls(s, FALSE, 1, -1)           \* [s]+
Many(s) == Cls(s, FALSE, 0, -1)            \* [s]*
Opt(s) == Cls(s, FALSE, 0, 1)           \* [s]?
PlusNot(s) == Cls(s, TRUE, 1, -1)         \* [^s]+
Lit(w) == [k |-> "lit", w |-> w, ic |-> FALSE]      \* the literal w
LitIC(w) == [k |-> "lit", w |-> w, ic |-> TRUE]     \* w under re.IGNORECASE
Star(b) == [k |-> "star", b |-> b]        \* (?:b)*
Alt(a) == [k |-> "alt", a |-> a]          \* (?:a1|a2|...)
NotAhead(b) == [k |-> "nla", b |-> b]     \* (?!b)
Bol == [k |-> "bol"]                      \* ^
BolM == [k |-> "mbol"]                    \* ^ under re.MULTILINE
Mark(n) == [k |-> "mark", n |-> n]        \* a capture group's bound
Adv(p) == [k |-> "adv", p |-> p]          \* a (..)* iteration consumed text
Wb == [k |-> "wb"]                        \* \b
PlusLazy(s) == [k |-> "lcls", s |-> s, neg |-> FALSE, min |-> 1, max |-> -1]  \* [s]+?
Maybe(b) == Alt(<< b, <<>> >>)            \* (?:b)?

\* \w
WordSet == LetterSet \cup DigitChars \cup {"_"}

ClsMatch(nd, c) == c # "" /\ ((c \in nd.s) # nd.neg)

\* How many characters from pos on the class node nd can take.
RunLen(t, nd, pos) ==
    LET n == Len(t)
        e == CHOOSE x \in pos..(n + 1) :
                /\ (x = n + 1 \/ ~ClsMatch(nd, CharAt(t, x)))
                /\ \A i \in pos..(x - 1) : ClsMatch(nd, CharAt(t, i))
    IN IF nd.max >= 0 THEN Min(e - pos, nd.max) ELSE e - pos

\* Whether the single node nd can match at pos, judged by the character at
\* pos alone.
HeadCan(t, nd, pos) ==
    CASE nd.k = "lit" ->
           IF nd.ic THEN str_lower(CharAt(t, pos)) = str_lower(SubSeq(nd.w, 1, 1))
           ELSE CharAt(t, pos) = SubSeq(nd.w, 1, 1)
      [] nd.k \in {"cls", "lcls"} ->
           IF nd.min >= 1 THEN ClsMatch(nd, CharAt(t, pos)) ELSE TRUE
      [] OTHER -> TRUE

\* The index of the first node of nodes that is not a group bound, 0 if none.
Lead(nodes) ==
    LET at == {i \in 1..Len(nodes) : nodes[i].k # "mark"}
    IN IF at = {} THEN 0 ELSE CHOOSE i \in at : \A j \in at : i <= j

\* Whether a match of nodes can begin at pos, judged by the character at pos
\* alone (a necessary condition, used to skip hopeless attempts).
CanStart(t, nodes, pos) ==
    LET k == Lead(nodes)
    IN IF k = 0 THEN TRUE
       ELSE IF nodes[k].k = "alt"
       THEN \E i \in 1..Len(nodes[k].a) :
               LET j == Lead(nodes[k].a[i])
               IN IF j = 0 THEN TRUE ELSE HeadCan(t, nodes[k].a[i][j], pos)
       ELSE HeadCan(t, nodes[k], pos)

\* Of the attempts rs, by number of characters taken, the successful one
\* that takes the fewest.
FirstOk(rs) ==
    LET good == {c \in DOMAIN rs : rs[c].ok}
    IN IF good = {} THEN Fail
       ELSE rs[CHOOSE c \in good : \A d \in good : c <= d]

\* Of the attempts rs, the successful one that takes the most.
LastOk(rs) ==
    LET good == {c \in DOMAIN rs : rs[c].ok}
    IN IF good = {} THEN Fail
       ELSE rs[CHOOSE c \in good : \A d \in good : d <= c]

RECURSIVE M(_, _, _, _)
RECURSIVE MAlt(_, _, _, _, _, _)
M(t, nodes, pos, mk) ==
    IF Len(nodes) = 0 THEN [ok |-> TRUE, end |-> pos, m |-> mk]
    ELSE
    LET nd == Head(nodes)
        rest == Tail(nodes)
    IN CASE nd.k = "cls" ->
            LastOk(Eager([c \in nd.min..RunLen(t, nd, pos) |->
                            M(t, rest, pos + c, mk)]))
         [] nd.k = "lit" ->
            LET w == SubSeq(t, pos, pos + Len(nd.w) - 1)
            IN IF pos + Len(nd.w) - 1 <= Len(t)
                  /\ (IF nd.ic THEN str_lower(w) = str_lower(nd.w) ELSE w = nd.w)
               THEN M(t, rest, pos + Len(nd.w), mk)
               ELSE Fail
         [] nd.k = "star" ->
            LET r == M(t, nd.b \o <<Adv(pos)>> \o nodes, pos, mk)
            IN IF r.ok THEN r ELSE M(t, rest, pos, mk)
         [] nd.k = "adv" ->
            IF pos > nd.p THEN M(t, rest, pos, mk) ELSE Fail
         [] nd.k = "alt" -> MAlt(t, nd.a, 1, rest, pos, mk)
         [] nd.k = "nla" ->
            IF M(t, nd.b, pos, mk).ok THEN Fail ELSE M(t, rest, pos, mk)
         [] nd.k = "bol" ->
            IF pos = 1 THEN M(t, rest, pos, mk) ELSE Fail
         [] nd.k = "mbol" ->
            IF pos = 1 \/ CharAt(t, pos - 1) = "\n"
            THEN M(t, rest, pos, mk) ELSE Fail
         [] nd.k = "mark" ->
            M(t, rest, pos, [mk EXCEPT ![nd.n] = pos])
         [] nd.k = "wb" ->
            IF (CharAt(t, pos - 1) \in WordSet) # (CharAt(t, pos) \in WordSet)
            THEN M(t, rest, pos, mk) ELSE Fail
         [] nd.k = "lcls" ->
            FirstOk(Eager([c \in {c \in nd.min..RunLen(t, nd, pos) :
                                    CanStart(t, rest, pos + c)} |->
                             M(t, rest, pos + c, mk)]))
MAlt(t, alts, i, rest, pos, mk) ==
    IF i > Len(alts) THEN Fail
    ELSE LET r == M(t, alts[i] \o rest, pos, mk)
         IN IF r.ok THEN r ELSE MAlt(t, alts, i + 1, rest, pos, mk)

\* The text of capture group g of match r.
Group(t, r, g) == SubSeq(t, r.m[2 * g - 1], r.m[2 * g] - 1)

\* re.finditer: the non-overlapping matches, scanning left to right.  all[p]
\* is the match that starts at p; a match is [start, end, m].
RECURSIVE IterFrom(_, _, _)
IterFrom(all, n, from) ==
    LET at == {p \in from..(n + 1) : all[p].ok}
    IN IF at = {} THEN <<>>
       ELSE LET p == CHOOSE x \in at : \A y \in at : x <= y
                r == all[p]
            IN <<[start |-> p, end |-> r.end, m |-> r.m]>>
               \o IterFrom(all, n, IF r.end > p THEN r.end ELSE p + 1)
re_finditer(nodes, t) ==
    LET n == Len(t)
        all == Eager([p \in 1..(n + 1) |-> M(t, nodes, p, NoMarks)])
    IN IterFrom(all, n, 1)

---------------------------------------------------------------------------
(* ClauseAnalyzer (src/utils/clause_analyzer.py).                          *)

clause_types ==
    << "definitions", "scope", "term", "termination", "payment",
       "confidentiality", "intellectual property", "warranties",
       "liability", "indemnification", "force majeure", "dispute resolution",
       "governing law", "notices", "amendments", "severability" >>

\* any(word in text_lower for word in words)
AnyWordIn(words, text_lower) == \E w \in words : str_in(w, text_lower)

_identify_clause_type(text) ==
    LET text_lower == str_lower(text)
        squeezed == str_nospace(text_lower)
        hits == {i \in 1..Len(clause_types) :
                    str_in(str_nospace(clause_types[i]), squeezed)}
    IN IF hits # {}
       THEN str_title(clause_types[CHOOSE i \in hits : \A j \in hits : i <= j])
       ELSE IF AnyWordIn({"define", "definition", "means"}, text_lower)
            THEN "Definitions"
       ELSE IF AnyWordIn({"terminate", "termination", "cancel"}, text_lower)
            THEN "Termination"
       ELSE IF AnyWordIn({"pay", "payment", "fee", "compensation"}, text_lower)
            THEN "Payment"
       ELSE IF AnyWordIn({"confidential", "secret", "proprietary"}, text_lower)
            THEN "Confidentiality"
       ELSE IF AnyWordIn({"liable", "liability", "responsible"}, text_lower)
            THEN "Liability"
       ELSE IF AnyWordIn({"warrant", "guarantee", "represent"}, text_lower)
            THEN "Warranties"
       ELSE "General"

MinClauseLength == 20
MinSectionLength == 50
MinParagraphLength == 100
MaxParagraphClauses == 20

\* r'(?:^|\n)\s*(\d+\.(?:\d+\.)*)\s+([^\n]+(?:\n(?!\s*\d+\.)[^\n]+)*)', re.MULTILINE
numbered_pattern ==
    << Alt(<< <<BolM>>, <<Lit("\n")>> >>), Many(SpaceSet),
       Mark(1), Plus(DigitChars), Lit("."),
       Star(<<Plus(DigitChars), Lit(".")>>), Mark(2),
       Plus(SpaceSet),
       Mark(3), PlusNot({"\n"}),
       Star(<< Lit("\n"),
               NotAhead(<<Many(SpaceSet), Plus(DigitChars), Lit(".")>>),
               PlusNot({"\n"}) >>), Mark(4) >>

RECURSIVE NumberedFrom(_, _, _)
NumberedFrom(text, matches, i) ==
    IF i > Len(matches) THEN <<>>
    ELSE LET number == str_strip(Group(text, matches[i], 1))
             content == str_strip(Group(text, matches[i], 2))
         IN (IF Len(content) > MinClauseLength
             THEN << [number |-> number,
                      content |-> content,
                      type |-> _identify_clause_type(content),
                      word_count |-> WordCount(content)] >>
             ELSE <<>>)
            \o NumberedFrom(text, matches, i + 1)
\* A variant that keeps every numbered match, whatever its length.
_extract_numbered_clauses_unfiltered(text) ==
    LET matches == re_finditer(numbered_pattern, text)
    IN [i \in 1..Len(matches) |->
          [number |-> str_strip(Group(text, matches[i], 1)),
           content |-> str_strip(Group(text, matches[i], 2)),
           type |-> "General", word_count |-> 0]]

_extract_numbered_clauses(text) ==
    NumberedFrom(text, re_finditer(numbered_pattern, text), 1)

\* r'(?:^|\n)\s*(?:ARTICLE\s+[IVX\d]+|SECTION\s+\d+|\d+\.)\s*[-...]?\s*([A-Z\s]+)(?:\n|\r)',
\* re.IGNORECASE (so [IVX] and [A-Z] take both cases; of the three dashes of
\* the class only the ASCII hyphen is among the modelled characters).
header_pattern ==
    << Alt(<< <<Bol>>, <<Lit("\n")>> >>), Many(SpaceSet),
       Alt(<< << LitIC("ARTICLE"), Plus(SpaceSet),
                 Plus({"I", "V", "X", "i", "v", "x"} \cup DigitChars) >>,
              << LitIC("SECTION"), Plus(SpaceSet), Plus(DigitChars) >>,
              << Plus(DigitChars), Lit(".") >> >>),
       Many(SpaceSet), Opt({"-"}), Many(SpaceSet),
       Mark(1), Plus(LetterSet \cup SpaceSet), Mark(2),
       One({"\n", "\r"}) >>

RECURSIVE SectionFrom(_, _, _)
SectionFrom(text, matches, i) ==
    IF i > Len(matches) THEN <<>>
    ELSE LET title == str_strip(Group(text, matches[i], 1))
             start == matches[i].end
             end == IF i + 1 <= Len(matches) THEN matches[i + 1].start
                    ELSE Len(text) + 1
             content == str_strip(SubSeq(text, start, end - 1))
         IN (IF Len(content) > MinSectionLength
             THEN << [title |-> title,
                      content |-> content,
                      type |-> _identify_clause_type(title \o " " \o content),
                      word_count |-> WordCount(content)] >>
             ELSE <<>>)
            \o SectionFrom(text, matches, i + 1)
_extract_section_clauses(text) ==
    SectionFrom(text, re_finditer(header_pattern, text), 1)

\* r'\n\s*\n|\.\s*\n'
paragraph_split_pattern ==
    << Alt(<< << Lit("\n"), Many(SpaceSet), Lit("\n") >>,
              << Lit("."), Many(SpaceSet), Lit("\n") >> >>) >>

\* re.split: the pieces of text between the matches of the pattern.
RECURSIVE SplitFrom(_, _, _, _)
SplitFrom(text, matches, i, from) ==
    IF i > Len(matches) THEN << SubSeq(text, from, Len(text)) >>
    ELSE << SubSeq(text, from, matches[i].start - 1) >>
         \o SplitFrom(text, matches, i + 1, matches[i].end)
re_split(nodes, text) == SplitFrom(text, re_finditer(nodes, text), 1, 1)

RECURSIVE ParagraphFrom(_, _)
ParagraphFrom(paragraphs, i) ==
    IF i > Len(paragraphs) THEN <<>>
    ELSE LET para == str_strip(paragraphs[i])
         IN (IF Len(para) > MinParagraphLength
             THEN << [number |-> "P" \o ToString(i),
                      content |-> para,
                      type |-> _identify_clause_type(para),
                      word_count |-> WordCount(para)] >>
             ELSE <<>>)
            \o ParagraphFrom(paragraphs, i + 1)
\* A variant that cuts the split paragraphs to 20 before filtering them.
_extract_paragraph_clauses_cut_first(text) ==
    LET paragraphs == re_split(paragraph_split_pattern, text)
    IN ParagraphFrom(SubSeq(paragraphs, 1, Min(Len(paragraphs), MaxParagraphClauses)), 1)

_extract_paragraph_clauses(text) ==
    LET clauses == ParagraphFrom(re_split(paragraph_split_pattern, text), 1)
    IN SubSeq(clauses, 1, Min(Len(clauses), MaxParagraphClauses))

\* A variant that runs the three strategies and returns all they found.
extract_clauses_mixed(text) ==
    [ran |-> <<"numbered", "section", "paragraph">>,
     clauses |-> _extract_numbered_clauses(text) \o _extract_section_clauses(text)
                 \o _extract_paragraph_clauses(text)]

\* extract_clauses: the clauses returned and, in `ran`, the strategies the
\* call invoked, in order.
extract_clauses(text) ==
    LET numbered_clauses == _extract_numbered_clauses(text)
        section_clauses == _extract_section_clauses(text)
    IN IF Len(numbered_clauses) > 0
       THEN [ran |-> <<"numbered">>, clauses |-> numbered_clauses]
       ELSE IF Len(section_clauses) > 0
       THEN [ran |-> <<"numbered", "section">>, clauses |-> section_clauses]
       ELSE [ran |-> <<"numbered", "section", "paragraph">>,
             clauses |-> _extract_paragraph_clauses(text)]

---------------------------------------------------------------------------
(* GraniteClient.generate (src/utils/granite_client.py).  The completion   *)
(* service is opaque: svc is what one call to it does, either returning    *)
(* svc.text or failing with an exception whose message is svc.text.        *)
(* A call's outcome is [exc, value]: exc is the message of the exception   *)
(* it raised, NoExc when it returned value.                                *)

NoExc == "<none>"
Returned(v) == [exc |-> NoExc, value |-> v]
Raised(e) == [exc |-> e, value |-> ""]

\* _generate_watsonx / _generate_huggingface
_generate_backend(svc) ==
    IF svc.fails THEN Raised(svc.text) ELSE Returned(svc.text)

\* generate: the try/except that turns every backend failure into a string.
generate(svc) ==
    LET r == _generate_backend(svc)
    IN IF r.exc = NoExc THEN r
       ELSE Returned("Error: " \o r.exc)

---------------------------------------------------------------------------
(* ClauseAnalyzer.simplify_clause.                                         *)

DefaultMaxLength == 500

\* round(x, 2) of the rational num / den (den > 0), in hundredths: to the
\* nearest hundredth, a tie to the even one.
RoundHundredths(num, den) ==
    LET q == (num * 100) \div den
        r == (num * 100) % den
    IN IF 2 * r > den THEN q + 1
       ELSE IF 2 * r < den THEN q
       ELSE IF q % 2 = 0 THEN q ELSE q + 1

\* round((1 - len(simplified) / len(clause_text)) * 100, 2), in hundredths
\* of a percent; the division raises ZeroDivisionError on an empty clause.
reduction_percentage(simplified, clause_text) ==
    IF Len(clause_text) = 0 THEN Raised("division by zero")
    ELSE Returned(RoundHundredths((Len(clause_text) - Len(simplified)) * 100,
                                  Len(clause_text)))

\* The body of the try block of simplify_clause.
simplify_try(clause_text, max_length, svc) ==
    LET g == generate(svc)
        stripped == str_strip(g.value)
        simplified == IF Len(stripped) > max_length
                      THEN SliceTo(stripped, max_length) \o "..."
                      ELSE stripped
        red == reduction_percentage(simplified, clause_text)
    IN IF g.exc # NoExc THEN Raised(g.exc)
       ELSE IF red.exc # NoExc THEN Raised(red.exc)
       ELSE Returned([original |-> clause_text,
                      simplified |-> simplified,
                      original_length |-> Len(clause_text),
                      simplified_length |-> Len(simplified),
                      reduction_percentage |-> red.value])

\* A variant without the except branch: what the try block raises escapes.
simplify_clause_uncaught(clause_text, max_length, svc) ==
    simplify_try(clause_text, max_length, svc)

\* simplify_clause: the try block, and the except branch for what it raised.
simplify_clause(clause_text, max_length, svc) ==
    LET b == simplify_try(clause_text, max_length, svc)
    IN IF b.exc = NoExc THEN b
       ELSE Returned([original |-> clause_text,
                      simplified |-> "Error simplifying clause: " \o b.exc,
                      original_length |-> Len(clause_text),
                      simplified_length |-> 0,
                      reduction_percentage |-> 0,
                      error |-> b.exc])

---------------------------------------------------------------------------
(* ClauseAnalyzer.batch_simplify.  svcs[i] is what the completion service  *)
(* does if it is called for clauses[i].                                    *)

MinBatchLength == 50

\* clause.get(key, default)
ClauseGet(clause, key, default) ==
    IF key \in DOMAIN clause THEN clause[key] ELSE default

\* One iteration of the loop for clauses[i] (i is 1-based; the code's
\* f'Clause {i+1}' counts from 0): the records it appends.
batch_step(clauses, svcs, i) ==
    LET clause == clauses[i]
        content == ClauseGet(clause, "content", "")
        result == simplify_clause(content, DefaultMaxLength, svcs[i]).value
    IN IF Len(content) < MinBatchLength THEN <<>>
       ELSE << result @@
               [number |-> ClauseGet(clause, "number",
                              ClauseGet(clause, "title", "Clause " \o ToString(i))),
                type |-> ClauseGet(clause, "type", "General")] >>

\* A variant that goes on until max_clauses clauses have been simplified.
RECURSIVE BatchUntilFull(_, _, _, _, _)
BatchUntilFull(clauses, max_clauses, svcs, i, acc) ==
    IF i > Len(clauses) \/ Len(acc) >= max_clauses THEN acc
    ELSE BatchUntilFull(clauses, max_clauses, svcs, i + 1,
                        acc \o batch_step(clauses, svcs, i))
batch_simplify_until_full(clauses, max_clauses, svcs) ==
    LET results == BatchUntilFull(clauses, max_clauses, svcs, 1, <<>>)
    IN [results |-> results, generate_calls |-> Len(results)]

\* The loop over clauses[:max_clauses].
RECURSIVE BatchFrom(_, _, _, _)
BatchFrom(clauses, svcs, i, n) ==
    IF i > n THEN <<>>
    ELSE batch_step(clauses, svcs, i) \o BatchFrom(clauses, svcs, i + 1, n)

\* batch_simplify: the records returned and how many generate calls it made.
batch_simplify(clauses, max_clauses, svcs) ==
    LET head == SliceTo(clauses, max_clauses)
        results == BatchFrom(clauses, svcs, 1, Len(head))
    IN [results |-> results, generate_calls |-> Len(results)]

---------------------------------------------------------------------------
(* LegalNERExtractor (src/utils/ner_extractor.py): six passes over a text,   *)
(* each a scan with regular expressions.  Characters outside ASCII (the     *)
(* currency symbols of the third money pattern) are outside the alphabet    *)
(* of the texts considered.                                                 *)

legal_terms ==
    << "agreement", "contract", "covenant", "warranty", "indemnification",
       "liability", "breach", "termination", "arbitration", "jurisdiction",
       "confidentiality", "non-disclosure", "intellectual property",
       "consideration", "force majeure", "governing law", "amendment",
       "severability", "waiver", "notice", "assignment", "subcontract" >>

obligation_keywords ==
    << "shall", "must", "will", "agrees to", "obligated to", "required to",
       "responsible for", "undertakes to", "covenant to", "bound to" >>

MaxParties == 10
MaxDates == 20
MaxAmounts == 15
MaxObligations == 20
MaxLegalTerms == 15
MaxContacts == 10

\* match.group(0)
Group0(t, r) == SubSeq(t, r.start, r.end - 1)

\* [A-Za-z\s&,\.]
NameSet == LetterSet \cup SpaceSet \cup {"&", ",", "."}

\* between\s+([A-Z][A-Za-z\s&,\.]+?)\s+(?:and|&)\s+([A-Z][A-Za-z\s&,\.]+?)(?:\s+|,|\.|\()
\* under re.IGNORECASE, where [A-Z] is any letter.
between_pattern ==
    << LitIC("between"), Plus(SpaceSet),
       Mark(1), One(LetterSet), PlusLazy(NameSet), Mark(2),
       Plus(SpaceSet), Alt(<< <<LitIC("and")>>, <<Lit("&")>> >>), Plus(SpaceSet),
       Mark(3), One(LetterSet), PlusLazy(NameSet), Mark(4),
       Alt(<< <<Plus(SpaceSet)>>, <<Lit(",")>>, <<Lit(".")>>, <<Lit("(")>> >>) >>

\* ([A-Z][A-Za-z\s&,\.]+?)\s+[\("]?hereinafter\s+referred\s+to\s+as\s+["\']?([A-Z][A-Za-z\s]+?)["\']?[\)"]?
\* under re.IGNORECASE.
referred_pattern ==
    << Mark(1), One(LetterSet), PlusLazy(NameSet), Mark(2),
       Plus(SpaceSet), Opt({"(", "\""}),
       LitIC("hereinafter"), Plus(SpaceSet), LitIC("referred"), Plus(SpaceSet),
       LitIC("to"), Plus(SpaceSet), LitIC("as"), Plus(SpaceSet),
       Opt({"\"", "'"}),
       Mark(3), One(LetterSet), PlusLazy(LetterSet \cup SpaceSet), Mark(4),
       Opt({"\"", "'"}), Opt({")", "\""}) >>

\* \b([A-Z][A-Za-z\s&]+?(?:Inc\.|LLC|Ltd\.|Corp\.|Corporation|Limited|Company))\b
org_pattern ==
    << Wb, Mark(1), One(UpperSet), PlusLazy(LetterSet \cup SpaceSet \cup {"&"}),
       Alt(<< <<Lit("Inc.")>>, <<Lit("LLC")>>, <<Lit("Ltd.")>>, <<Lit("Corp.")>>,
              <<Lit("Corporation")>>, <<Lit("Limited")>>, <<Lit("Company")>> >>),
       Mark(2), Wb >>

MaxPartyName == 50
MaxFullName == 100

RECURSIVE BetweenFrom(_, _, _)
BetweenFrom(text, matches, i) ==
    IF i > Len(matches) THEN <<>>
    ELSE LET match == matches[i]
             party1 == str_strip(Group(text, match, 1))
             party2 == str_strip(Group(text, match, 2))
             found == IF Len(party1) < MaxPartyName /\ Len(party2) < MaxPartyName
                      THEN << [name |-> party1, role |-> "Party 1",
                               context |-> Group0(text, match)],
                              [name |-> party2, role |-> "Party 2",
                               context |-> Group0(text, match)] >>
                      ELSE <<>>
         IN found \o BetweenFrom(text, matches, i + 1)

RECURSIVE ReferredFrom(_, _, _)
ReferredFrom(text, matches, i) ==
    IF i > Len(matches) THEN <<>>
    ELSE LET match == matches[i]
             full_name == str_strip(Group(text, match, 1))
             short_name == str_strip(Group(text, match, 2))
             found == IF Len(full_name) < MaxFullName
                      THEN << [name |-> full_name, alias |-> short_name,
                               role |-> "Party",
                               context |-> Group0(text, match)] >>
                      ELSE <<>>
         IN found \o ReferredFrom(text, matches, i + 1)

\* The organisation matches, each appended to parties unless its name is
\* already the name of an entry.
RECURSIVE OrgFrom(_, _, _, _)
OrgFrom(text, matches, i, parties) ==
    IF i > Len(matches) THEN parties
    ELSE LET match == matches[i]
             org_name == str_strip(Group(text, match, 1))
             known == \E k \in 1..Len(parties) : parties[k].name = org_name
         IN OrgFrom(text, matches, i + 1,
                    IF Len(org_name) < MaxFullName /\ ~known
                    THEN Append(parties, [name |-> org_name,
                                          role |-> "Organization",
                                          context |-> Group0(text, match)])
                    ELSE parties)

\* _extract_parties without its final slice.
all_parties(text) ==
    OrgFrom(text, re_finditer(org_pattern, text), 1,
            BetweenFrom(text, re_finditer(between_pattern, text), 1)
            \o ReferredFrom(text, re_finditer(referred_pattern, text), 1))

_extract_parties_uncapped(text) == all_parties(text)

_extract_parties(text) == SliceTo(all_parties(text), MaxParties)

---------------------------------------------------------------------------
ContextWindow == 50

\* _get_context(text, start, end) for a match from position start up to
\* (not including) position end, both 1-based.
_get_context(text, start, end) ==
    LET context_start == Max(0, (start - 1) - ContextWindow)
        context_end == Min(Len(text), (end - 1) + ContextWindow)
        context == str_strip(SubSeq(text, context_start + 1, context_end))
    IN (IF context_start > 0 THEN "..." ELSE "") \o context
       \o (IF context_end < Len(text) THEN "..." ELSE "")

Months ==
    << "January", "February", "March", "April", "May", "June", "July",
       "August", "September", "October", "November", "December" >>

\* \b(January|...|December)\s+(\d{1,2}),?\s+(\d{4})\b under re.IGNORECASE
date_pattern1 ==
    << Wb, Alt([i \in 1..Len(Months) |-> <<LitIC(Months[i])>>]),
       Plus(SpaceSet), Cls(DigitChars, FALSE, 1, 2), Opt({","}),
       Plus(SpaceSet), Cls(DigitChars, FALSE, 4, 4), Wb >>

\* \b(\d{1,2})[/-](\d{1,2})[/-](\d{4})\b
date_pattern2 ==
    << Wb, Cls(DigitChars, FALSE, 1, 2), One({"/", "-"}),
       Cls(DigitChars, FALSE, 1, 2), One({"/", "-"}),
       Cls(DigitChars, FALSE, 4, 4), Wb >>

\* \b(\d{4})-(\d{2})-(\d{2})\b
date_pattern3 ==
    << Wb, Cls(DigitChars, FALSE, 4, 4), Lit("-"), Cls(DigitChars, FALSE, 2, 2),
       Lit("-"), Cls(DigitChars, FALSE, 2, 2), Wb >>

DatesFrom(text, matches, format) ==
    [i \in 1..Len(matches) |->
        [date |-> Group0(text, matches[i]), format |-> format,
         context |-> _get_context(text, matches[i].start, matches[i].end)]]
DatesOf(text, pattern, format) == DatesFrom(text, re_finditer(pattern, text), format)

all_dates(text) ==
    DatesOf(text, date_pattern1, "Month DD, YYYY")
    \o DatesOf(text, date_pattern2, "DD/MM/YYYY or MM/DD/YYYY")
    \o DatesOf(text, date_pattern3, "YYYY-MM-DD")

_extract_dates(text) == SliceTo(all_dates(text), MaxDates)

\* (\d{1,3}(?:,\d{3})*(?:\.\d{2})?) as capture group 1
amount_group ==
    << Mark(1), Cls(DigitChars, FALSE, 1, 3),
       Star(<< Lit(","), Cls(DigitChars, FALSE, 3, 3) >>),
       Maybe(<< Lit("."), Cls(DigitChars, FALSE, 2, 2) >>), Mark(2) >>

\* \$\s?(\d{1,3}(?:,\d{3})*(?:\.\d{2})?)\b
money_pattern1 == << Lit("$"), Opt(SpaceSet) >> \o amount_group \o << Wb >>

\* \b(\d{1,3}(?:,\d{3})*(?:\.\d{2})?)\s+(?:dollars?|USD)\b under re.IGNORECASE
money_pattern2 ==
    << Wb >> \o amount_group
    \o << Plus(SpaceSet),
          Alt(<< <<LitIC("dollar"), Opt({"s", "S"})>>, <<LitIC("USD")>> >>), Wb >>

\* \b(\d{1,3}(?:,\d{3})*(?:\.\d{2})?)\s+(EUR|GBP|INR|...)\b under re.IGNORECASE
money_pattern3 ==
    << Wb >> \o amount_group
    \o << Plus(SpaceSet), Mark(3),
          Alt(<< <<LitIC("EUR")>>, <<LitIC("GBP")>>, <<LitIC("INR")>> >>),
          Mark(4), Wb >>

\* s.replace(c, ''): s without the character c.
RECURSIVE str_remove(_, _)
str_remove(s, c) ==
    IF Len(s) = 0 THEN ""
    ELSE IF Len(s) = 1 THEN (IF s = c THEN "" ELSE s)
    ELSE LET h == Len(s) \div 2
         IN str_remove(SubSeq(s, 1, h), c) \o str_remove(SubSeq(s, h + 1, Len(s)), c)

\* The amounts one pattern finds; currency is "" for the currency named by
\* the match's second group.
AmountsFrom(text, matches, currency) ==
    [i \in 1..Len(matches) |->
        [amount |-> Group0(text, matches[i]),
         value |-> str_remove(Group(text, matches[i], 1), ","),
         currency |-> IF currency = "" THEN Group(text, matches[i], 2)
                      ELSE currency,
         context |-> _get_context(text, matches[i].start, matches[i].end)]]
AmountsOf(text, pattern, currency) ==
    AmountsFrom(text, re_finditer(pattern, text), currency)

all_amounts(text) ==
    AmountsOf(text, money_pattern1, "USD")
    \o AmountsOf(text, money_pattern2, "USD")
    \o AmountsOf(text, money_pattern3, "")

_extract_monetary_values(text) == SliceTo(all_amounts(text), MaxAmounts)

\* [.;]\s+
sentence_split_pattern == << One({".", ";"}), Plus(SpaceSet) >>

RECURSIVE ObligationsFrom(_, _)
ObligationsFrom(sentences, i) ==
    IF i > Len(sentences) THEN <<>>
    ELSE LET sentence == sentences[i]
             lower == str_lower(sentence)
             hits == {k \in 1..Len(obligation_keywords) :
                         str_in(str_lower(obligation_keywords[k]), lower)}
             found == IF hits = {} THEN <<>>
                      ELSE << [clause |-> str_strip(sentence),
                               keyword |-> obligation_keywords[
                                   CHOOSE k \in hits : \A j \in hits : k <= j],
                               type |-> "obligation"] >>
         IN found \o ObligationsFrom(sentences, i + 1)

all_obligations(text) ==
    ObligationsFrom(re_split(sentence_split_pattern, text), 1)

_extract_obligations(text) == SliceTo(all_obligations(text), MaxObligations)

\* The entry of legal_terms[k], or <<>> if the term does not occur as a word.
TermFrom(text, term, matches) ==
    IF Len(matches) = 0 THEN <<>>
    ELSE << [term |-> term, count |-> Len(matches),
             context |-> _get_context(text, matches[1].start, matches[1].end)] >>
TermEntry(text, text_lower, k) ==
    TermFrom(text, legal_terms[k],
             re_finditer(<< Wb, Lit(legal_terms[k]), Wb >>, text_lower))

RECURSIVE TermsFrom(_, _, _)
TermsFrom(text, text_lower, k) ==
    IF k > Len(legal_terms) THEN <<>>
    ELSE TermEntry(text, text_lower, k) \o TermsFrom(text, text_lower, k + 1)

\* terms.sort(key=count, reverse=True): stable, so equal counts keep their
\* order.
SortByCount(terms) ==
    LET n == Len(terms)
        rank(i) == Cardinality({j \in 1..n :
                       \/ terms[j].count > terms[i].count
                       \/ terms[j].count = terms[i].count /\ j < i})
    IN [p \in 1..n |-> terms[CHOOSE i \in 1..n : rank(i) = p - 1]]

all_legal_terms(text) == SortByCount(TermsFrom(text, str_lower(text), 1))

_extract_legal_terms(text) == SliceTo(all_legal_terms(text), MaxLegalTerms)

\* \b[A-Za-z0-9._%+-]+@[A-Za-z0-9.-]+\.[A-Z|a-z]{2,}\b
email_pattern ==
    << Wb, Plus(LetterSet \cup DigitChars \cup {".", "_", "%", "+", "-"}),
       Lit("@"), Plus(LetterSet \cup DigitChars \cup {".", "-"}), Lit("."),
       Cls(LetterSet \cup {"|"}, FALSE, 2, -1), Wb >>

\* \b(?:\+?1[-.]?)?\(?([0-9]{3})\)?[-.]?([0-9]{3})[-.]?([0-9]{4})\b
phone_pattern ==
    << Wb, Maybe(<< Opt({"+"}), Lit("1"), Opt({"-", "."}) >>),
       Opt({"("}), Cls(DigitChars, FALSE, 3, 3), Opt({")"}), Opt({"-", "."}),
       Cls(DigitChars, FALSE, 3, 3), Opt({"-", "."}),
       Cls(DigitChars, FALSE, 4, 4), Wb >>

ContactsFrom(text, matches, type) ==
    [i \in 1..Len(matches) |->
        [type |-> type, value |-> Group0(text, matches[i]),
         context |-> _get_context(text, matches[i].start, matches[i].end)]]
ContactsOf(text, pattern, type) == ContactsFrom(text, re_finditer(pattern, text), type)

all_contacts(text) ==
    ContactsOf(text, email_pattern, "email") \o ContactsOf(text, phone_pattern, "phone")

_extract_contact_info(text) == SliceTo(all_contacts(text), MaxContacts)

\* extract_entities(text): the dict it returns.
extract_entities(text) ==
    [parties |-> _extract_parties(text),
     dates |-> _extract_dates(text),
     monetary_values |-> _extract_monetary_values(text),
     obligations |-> _extract_obligations(text),
     legal_terms |-> _extract_legal_terms(text),
     contact_info |-> _extract_contact_info(text)]

---------------------------------------------------------------------------
Categories ==
    << "parties", "dates", "monetary_values", "obligations", "legal_terms",
       "contact_info" >>

\* What a dict of list ids holds: each key with the list the id names.
Deref(h, d) == [c \in DOMAIN d |-> h[d[c]]]

\* extract_entities on an instance whose list objects are h and whose
\* self.entities is ents, had the lists of ents been extended in place.
extract_entities_accumulating(h, ents, text) ==
    LET found == extract_entities(text)
    IN IF DOMAIN ents = {}
       THEN [heap |-> h \o [i \in 1..Len(Categories) |-> found[Categories[i]]],
             entities |-> [c \in {Categories[i] : i \in 1..Len(Categories)} |->
                              Len(h) + CHOOSE i \in 1..Len(Categories) : Categories[i] = c]]
       ELSE [heap |-> [id \in 1..Len(h) |->
                         IF \E c \in DOMAIN ents : ents[c] = id
                         THEN h[id] \o found[CHOOSE c \in DOMAIN ents : ents[c] = id]
                         ELSE h[id]],
             entities |-> ents]

\* extract_entities on an instance whose list objects are h and whose
\* self.entities is ents: self.entities is rebound to a new mapping, the
\* list of each pass is a new object, and the dict returned holds the same
\* six list objects (dict(self.entities) copies the mapping, not the lists).
extract_entities_call(h, ents, text) ==
    LET found == extract_entities(text)
    IN [heap |-> h \o [i \in 1..Len(Categories) |-> found[Categories[i]]],
        entities |-> [c \in {Categories[i] : i \in 1..Len(Categories)} |->
                         Len(h) + CHOOSE i \in 1..Len(Categories) : Categories[i] = c]]

\* get_summary(): len(self.entities.get(c, [])) for each category.
get_summary(h, ents) ==
    [c \in {Categories[i] : i \in 1..Len(Categories)} |->
        IF c \in DOMAIN ents THEN Len(h[ents[c]]) ELSE 0]

---------------------------------------------------------------------------
(* DocumentProcessor (src/utils/document_processor.py).  Reading a file is  *)
(* opaque: extraction is what the extractor of the file's type does with   *)
(* it, either returning the text it read or raising.                       *)

SUPPORTED_FORMATS == << ".pdf", ".docx", ".txt" >>

\* The 1-based index of the last occurrence of the character c in s, 0 if none.
LastIndex(c, s) ==
    LET at == {i \in 1..Len(s) : CharAt(s, i) = c}
    IN IF at = {} THEN 0 ELSE CHOOSE i \in at : \A j \in at : j <= i

\* Path(file_path).name
path_name(file_path) == SubSeq(file_path, LastIndex("/", file_path) + 1, Len(file_path))

\* Path(file_path).suffix: from the last dot of the name, unless the dot is
\* the name's first or last character.
path_suffix(file_path) ==
    LET name == path_name(file_path)
        dot == LastIndex(".", name)
    IN IF dot > 1 /\ dot < Len(name) THEN SubSeq(name, dot, Len(name)) ELSE ""

\* re.sub(pattern, repl, text) for a pattern with no capture group and no
\* empty match.
re_sub(nodes, repl, text) == Join(re_split(nodes, text), repl)

\* Page\s+\d+\s+of\s+\d+ under re.IGNORECASE
page_of_pattern ==
    << LitIC("Page"), Plus(SpaceSet), Plus(DigitChars), Plus(SpaceSet),
       LitIC("of"), Plus(SpaceSet), Plus(DigitChars) >>

\* \bPage\s+\d+\b under re.IGNORECASE
page_pattern == << Wb, LitIC("Page"), Plus(SpaceSet), Plus(DigitChars), Wb >>

\* \n\s*\n\s*\n+
line_breaks_pattern ==
    << Lit("\n"), Many(SpaceSet), Lit("\n"), Many(SpaceSet), Plus({"\n"}) >>

\* _clean_text.  The four str.replace calls that follow the substitutions
\* replace a quote character by itself in this source, and change nothing.
_clean_text(text) ==
    LET spaced == re_sub(<< Plus(SpaceSet) >>, " ", text)
        unpaged == re_sub(page_pattern, "", re_sub(page_of_pattern, "", spaced))
    IN str_strip(re_sub(line_breaks_pattern, "\n\n", unpaged))

\* A slice bound as str slicing and str.rfind adjust it for a string of
\* length n: a negative bound counts from the end, and both are clamped.
SliceIndex(i, n) ==
    IF i < 0 THEN (IF i + n < 0 THEN 0 ELSE i + n) ELSE (IF i > n THEN n ELSE i)

\* s[start:end], with offsets counted from 0.
str_slice(s, start, end) ==
    LET a == SliceIndex(start, Len(s))
        b == SliceIndex(end, Len(s))
    IN IF a < b THEN SubSeq(s, a + 1, b) ELSE ""

\* s.rfind(c, start, end) for a one-character c: the highest offset in
\* s[start:end] holding c, or -1.
str_rfind(s, c, start, end) ==
    LET hits == {i \in SliceIndex(start, Len(s))..(SliceIndex(end, Len(s)) - 1) :
                    CharAt(s, i + 1) = c}
    IN IF hits = {} THEN -1 ELSE CHOOSE i \in hits : \A j \in hits : j <= i

\* The end of the chunk that starts at start: the window's end, or just
\* after the last full stop of the window when the window ends inside the
\* text and that full stop lies after start.
chunk_end(text, start, chunk_size) ==
    LET end == start + chunk_size
        sentence_end == str_rfind(text, ".", start, end)
    IN IF end < Len(text) /\ sentence_end > start THEN sentence_end + 1 ELSE end

\* One iteration of the loop of chunk_text: the chunk appended and the next
\* start offset.
chunk_step(text, start, chunk_size, overlap) ==
    LET end == chunk_end(text, start, chunk_size)
    IN [chunk |-> str_strip(str_slice(text, start, end)), start |-> end - overlap]

legal_keywords ==
    << "whereas", "hereby", "hereunder", "hereinafter",
       "notwithstanding", "pursuant", "covenant", "indemnify",
       "liability", "breach", "termination", "confidential" >>

\* _extract_metadata for self.text = text.  legal_keyword_density is the
\* quotient keyword_count / len(legal_keywords) * 100, kept as the fraction
\* num / den.
_extract_metadata(text) ==
    LET lower == str_lower(text)
        keyword_count == Cardinality({k \in 1..Len(legal_keywords) :
                                         str_in(str_lower(legal_keywords[k]), lower)})
    IN [word_count |-> WordCount(text),
        char_count |-> Len(text),
        estimated_clauses |-> Len(re_finditer(sentence_split_pattern, text)),
        legal_keyword_density |-> [num |-> keyword_count * 100,
                                   den |-> Len(legal_keywords)],
        file_size |-> Len(text)]

\* The end of a process_file call that extracted and cleaned text: the
\* metadata is computed from self.text, and the four fields are returned.
Processed(named, text) ==
    LET done == [named EXCEPT !.text = text, !.metadata = _extract_metadata(text)]
    IN [processor |-> done, exc |-> NoExc, value |-> done]

UnsupportedMessage(file_type) ==
    "Unsupported file format: " \o file_type
    \o ". Supported: ['.pdf', '.docx', '.txt']"

\* process_file(file_path) on the processor proc: the processor afterwards
\* and the call's outcome.
process_file(proc, file_path, extraction) ==
    LET named == [proc EXCEPT !.filename = path_name(file_path),
                              !.file_type = str_lower(path_suffix(file_path))]
    IN IF \A i \in 1..Len(SUPPORTED_FORMATS) : SUPPORTED_FORMATS[i] # named.file_type
       THEN [processor |-> named, exc |-> UnsupportedMessage(named.file_type),
             value |-> ""]
       ELSE IF extraction.exc # NoExc
       THEN [processor |-> named, exc |-> extraction.exc, value |-> ""]
       ELSE Processed(named, _clean_text(extraction.value))

---------------------------------------------------------------------------
(* DocumentClassifier (src/utils/doc_classifier.py).                       *)

\* r'a\s+b' and r'a\s+b\s+c'
W2(a, b) == << Lit(a), Plus(SpaceSet), Lit(b) >>
W3(a, b, c) == << Lit(a), Plus(SpaceSet), Lit(b), Plus(SpaceSet), Lit(c) >>

\* The catalog, in the order the dict declares (and iterates) it.
document_signatures ==
    << [name |-> "Non-Disclosure Agreement (NDA)",
        keywords |-> << "confidential", "non-disclosure", "proprietary information",
                        "trade secret", "confidentiality", "receiving party",
                        "disclosing party" >>,
        patterns |-> << << Lit("non"), One({"-"} \cup SpaceSet), Lit("disclosure") >>,
                        << Lit("NDA") >>,
                        W2("confidentiality", "agreement") >>],
       [name |-> "Employment Contract",
        keywords |-> << "employee", "employer", "employment", "salary", "compensation",
                        "job title", "duties", "responsibilities", "benefits",
                        "vacation", "termination of employment", "at-will" >>,
        patterns |-> << W2("employment", "agreement"), W2("offer", "letter"),
                        W2("employee", "handbook") >>],
       [name |-> "Lease Agreement",
        keywords |-> << "lease", "tenant", "landlord", "rent", "premises", "property",
                        "security deposit", "maintenance", "lease term", "rental" >>,
        patterns |-> << W2("lease", "agreement"), W2("rental", "agreement"),
                        << Lit("tenancy") >> >>],
       [name |-> "Service Agreement",
        keywords |-> << "services", "service provider", "client", "deliverables",
                        "scope of work", "professional services", "consulting",
                        "independent contractor", "statement of work" >>,
        patterns |-> << W2("service", "agreement"), W2("consulting", "agreement"),
                        W2("professional", "services"),
                        W3("statement", "of", "work"), << Lit("SOW") >> >>],
       [name |-> "Purchase Agreement",
        keywords |-> << "purchase", "buyer", "seller", "goods", "merchandise",
                        "delivery", "shipping", "purchase price", "payment terms" >>,
        patterns |-> << W2("purchase", "agreement"), W2("sales", "agreement"),
                        W2("purchase", "order"), W3("bill", "of", "sale") >>],
       [name |-> "Partnership Agreement",
        keywords |-> << "partner", "partnership", "capital contribution",
                        "profit sharing", "loss sharing", "management", "dissolution",
                        "partnership interest" >>,
        patterns |-> << W2("partnership", "agreement"), W2("joint", "venture") >>],
       [name |-> "License Agreement",
        keywords |-> << "license", "licensor", "licensee", "intellectual property",
                        "usage rights", "royalty", "sublicense", "license fee" >>,
        patterns |-> << W2("license", "agreement"), W2("licensing", "agreement"),
                        W2("software", "license") >>],
       [name |-> "Loan Agreement",
        keywords |-> << "loan", "lender", "borrower", "principal", "interest rate",
                        "repayment", "default", "collateral", "promissory note" >>,
        patterns |-> << W2("loan", "agreement"), W2("promissory", "note"),
                        W2("credit", "agreement") >>],
       [name |-> "Settlement Agreement",
        keywords |-> << "settlement", "dispute", "claim", "release", "parties agree",
                        "consideration", "waiver", "mutual release" >>,
        patterns |-> << W2("settlement", "agreement"), W2("release", "agreement"),
                        << Lit("compromise") >> >>],
       [name |-> "Franchise Agreement",
        keywords |-> << "franchise", "franchisor", "franchisee", "territory",
                        "operating system", "franchise fee", "royalty" >>,
        patterns |-> << W2("franchise", "agreement"), << Lit("franchising") >> >>] >>

NumTypes == Len(document_signatures)
CatalogKeys == {document_signatures[i].name : i \in 1..NumTypes}

\* A variant that counts a match of the whole text only (re.fullmatch).
re_count_fullmatch(nodes, text) ==
    LET r == M(text, nodes, 1, NoMarks)
    IN IF r.ok /\ r.end = Len(text) + 1 THEN 1 ELSE 0

\* len(re.findall(pattern, text))
re_count(nodes, text) == Len(re_finditer(nodes, text))

RECURSIVE SumSeq(_, _)
SumSeq(f, i) == IF i > Len(f) THEN 0 ELSE f[i] + SumSeq(f, i + 1)

KeywordWeight == 1
PatternWeight == 2

\* The score of one signature: the loop body of _rule_based_classification.
signature_score(signature, text_lower) ==
    SumSeq(Eager([i \in 1..Len(signature.keywords) |->
              IF str_in(str_lower(signature.keywords[i]), text_lower)
              THEN KeywordWeight ELSE 0]), 1)
    + SumSeq(Eager([i \in 1..Len(signature.patterns) |->
              re_count(signature.patterns[i], text_lower) * PatternWeight]), 1)

\* _rule_based_classification: the score of every catalog entry, in catalog
\* order.
_rule_based_classification(text) ==
    LET text_lower == str_lower(text)
    IN Eager([i \in 1..NumTypes |->
                signature_score(document_signatures[i], text_lower)])

TopK == 3

\* A variant whose sort puts, among equal scores, the later catalog entry
\* first.
top_candidates_later_first(rule_scores) ==
    LET before(i) == Cardinality({j \in 1..NumTypes :
                        \/ rule_scores[j] > rule_scores[i]
                        \/ (rule_scores[j] = rule_scores[i] /\ j > i)})
        at(k) == CHOOSE i \in 1..NumTypes : before(i) = k - 1
    IN Eager([k \in 1..Min(TopK, NumTypes) |->
                [type |-> document_signatures[at(k)].name,
                 score |-> rule_scores[at(k)]]])

\* sorted(rule_scores.items(), key=lambda x: x[1], reverse=True)[:3]: by
\* descending score, entries of equal score in catalog order (the sort is
\* stable), as (type, score) pairs.
top_candidates(rule_scores) ==
    LET before(i) == Cardinality({j \in 1..NumTypes :
                        \/ rule_scores[j] > rule_scores[i]
                        \/ (rule_scores[j] = rule_scores[i] /\ j < i)})
        at(k) == CHOOSE i \in 1..NumTypes : before(i) = k - 1
    IN Eager([k \in 1..Min(TopK, NumTypes) |->
                [type |-> document_signatures[at(k)].name,
                 score |-> rule_scores[at(k)]]])

\* line.split(':', 1)[1].strip()
AfterColon(line) ==
    str_strip(SubSeq(line, str_find(":", line) + 1, Len(line)))

\* The parse loop of _ai_classification over the lines of the response; a
\* doc_type of "" stands for None (both are falsy and match no catalog key).
RECURSIVE ParseLines(_, _, _)
ParseLines(lines, i, acc) ==
    IF i > Len(lines) THEN acc
    ELSE LET line == lines[i]
             low == str_lower(line)
         IN ParseLines(lines, i + 1,
              IF str_in("document type:", low)
              THEN [acc EXCEPT !.doc_type = AfterColon(line)]
              ELSE IF str_in("confidence:", low)
              THEN [acc EXCEPT !.confidence = AfterColon(line)]
              ELSE IF str_in("reasoning:", low)
              THEN [acc EXCEPT !.reasoning = AfterColon(line)]
              ELSE acc)

\* confidence_map.get(confidence.lower(), 70)
confidence_score(confidence) ==
    LET c == str_lower(confidence)
    IN IF c = "high" THEN 90
       ELSE IF c = "medium" THEN 70
       ELSE IF c = "low" THEN 50
       ELSE 70

\* A variant whose substring fallback takes the last matching catalog key.
resolve_doc_type_last_match(doc_type, candidates) ==
    IF doc_type # "" /\ doc_type \in CatalogKeys THEN doc_type
    ELSE LET close == {i \in 1..NumTypes :
                         str_in(str_lower(document_signatures[i].name),
                                str_lower(doc_type))}
         IN IF close # {}
            THEN document_signatures[CHOOSE i \in close : \A j \in close : i >= j].name
            ELSE IF Len(candidates) > 0 THEN candidates[1] ELSE "Unknown"

\* A variant without the validation: the parsed doc_type is kept as it is.
resolve_doc_type_unvalidated(doc_type, candidates) == doc_type

\* The validation of the parsed doc_type against the catalog.
resolve_doc_type(doc_type, candidates) ==
    IF doc_type # "" /\ doc_type \in CatalogKeys THEN doc_type
    ELSE LET close == {i \in 1..NumTypes :
                         str_in(str_lower(document_signatures[i].name),
                                str_lower(doc_type))}
         IN IF close # {}
            THEN document_signatures[CHOOSE i \in close : \A j \in close : i <= j].name
            ELSE IF Len(candidates) > 0 THEN candidates[1] ELSE "Unknown"

\* _ai_classification: the try block, and the except branch for what the
\* generate call raised.  (The prompt, with the text cut to 2000 characters,
\* goes to the opaque service and does not otherwise reach the result.)
_ai_classification(candidates, svc) ==
    LET g == generate(svc)
        parsed == ParseLines(re_split(<<Lit("\n")>>, g.value), 1,
                     [doc_type |-> "", confidence |-> "Medium", reasoning |-> ""])
    IN IF g.exc = NoExc
       THEN [type |-> resolve_doc_type(parsed.doc_type, candidates),
             confidence |-> confidence_score(parsed.confidence),
             reasoning |-> parsed.reasoning]
       ELSE [type |-> IF Len(candidates) > 0 THEN candidates[1] ELSE "Unknown",
             confidence |-> 50,
             reasoning |-> "Error in AI classification: " \o g.exc]

AiThreshold == 5

\* A variant that also escalates a top score equal to the threshold.
escalates_inclusive(use_ai, top_score) == use_ai /\ top_score <= AiThreshold

\* `use_ai and top_candidates[0][1] < 5`
escalates(use_ai, top_score) == use_ai /\ top_score < AiThreshold

\* A variant without the clamp at 100.
rule_confidence_unclamped(score) == (score * 100) \div 10

\* round(min(score / 10 * 100, 100), 2): the scores are whole numbers, so
\* this is a whole number of percent.
rule_confidence(score) == Min((score * 100) \div 10, 100)

\* classify_document: the result and, in generate_calls, how many calls of
\* the completion service it made.
classify_document(text, use_ai, svc) ==
    LET rule_scores == _rule_based_classification(text)
        top == top_candidates(rule_scores)
        ai == _ai_classification(Eager([k \in 1..Len(top) |-> top[k].type]), svc)
    IN IF escalates(use_ai, top[1].score)
       THEN [result |-> [document_type |-> ai.type,
                         confidence |-> ai.confidence,
                         method |-> "AI-enhanced",
                         rule_based_scores |-> top,
                         reasoning |-> ai.reasoning],
             generate_calls |-> 1]
       ELSE [result |-> [document_type |-> top[1].type,
                         confidence |-> rule_confidence(top[1].score),
                         method |-> "Rule-based",
                         rule_based_scores |-> top,
                         reasoning |-> "Identified based on keyword and pattern matching"],
             generate_calls |-> 0]

---------------------------------------------------------------------------
(* The memoized client: GraniteClient.__init__ and get_granite_client.     *)

\* The config argument: None, GraniteConfig(use_watsonx=False) or
\* GraniteConfig(use_watsonx=True) (the other fields only parametrize the
\* backend).
Configs == {"None", "hf", "wx"}
\* What loading a model does when a client is constructed: whether the
\* watsonx and the HuggingFace initialisation succeed.
Envs == [wx_ok : BOOLEAN, hf_ok : BOOLEAN]

\* GraniteClient(config): __init__, _initialize_model, _init_watsonx (which
\* falls back to HuggingFace) and _init_huggingface (which sets use_watsonx
\* to False, or re-raises).
GraniteClient_init(config, env) ==
    IF config = "wx" /\ env.wx_ok
    THEN Returned([config |-> config, use_watsonx |-> TRUE])
    ELSE IF env.hf_ok
    THEN Returned([config |-> config, use_watsonx |-> FALSE])
    ELSE Raised("model load failed")

\* A variant that honours a config given on a later call by constructing a
\* new client for it.
get_granite_client_reconfigured(client, insts, config, env) ==
    LET c == GraniteClient_init(config, env)
    IN IF client = 0 \/ config # "None"
       THEN IF c.exc = NoExc
            THEN [client |-> Len(insts) + 1, instances |-> Append(insts, c.value),
                  ret |-> Len(insts) + 1, constructed |-> TRUE, exc |-> NoExc]
            ELSE [client |-> client, instances |-> insts,
                  ret |-> 0, constructed |-> TRUE, exc |-> c.exc]
       ELSE [client |-> client, instances |-> insts,
             ret |-> client, constructed |-> FALSE, exc |-> NoExc]

\* get_granite_client(config), run without interruption, from the global
\* `client` (0 is None) and the clients constructed so far: the new global,
\* the clients, the client returned (ret, 0 when the call raised) and
\* whether the call ran the GraniteClient constructor.
get_granite_client(client, insts, config, env) ==
    LET c == GraniteClient_init(config, env)
    IN IF client = 0
       THEN IF c.exc = NoExc
            THEN [client |-> Len(insts) + 1, instances |-> Append(insts, c.value),
                  ret |-> Len(insts) + 1, constructed |-> TRUE, exc |-> NoExc]
            ELSE [client |-> client, instances |-> insts,
                  ret |-> 0, constructed |-> TRUE, exc |-> c.exc]
       ELSE [client |-> client, instances |-> insts,
             ret |-> client, constructed |-> FALSE, exc |-> NoExc]

---------------------------------------------------------------------------
(* State.                                                                  *)

VARIABLES
    _granite_client,  \* the module global: 0 (None) or the id of a client
    instances,        \* the GraniteClient objects constructed, by id
    analyzer,         \* self.granite of the ClauseAnalyzer made last (0: none)
    classifier,       \* self.granite of the DocumentClassifier made last
    calls,            \* the get_granite_client calls completed, in order
    pc, arg, tmp, ret, \* per thread inside get_granite_client: position,
                      \* its config argument, the client it constructed,
                      \* the client it returned
    stores,           \* the ids written to the global by those threads
    req,              \* the analysis call requested: its name and arguments
    last,             \* the analysis call carried out: name, arguments, outcome
    heap,             \* the list objects the entity extractor created, by id
    entities,         \* self.entities of the LegalNERExtractor: category -> list id
    returned,         \* the dicts extract_entities returned: category -> list id
    processor         \* the DocumentProcessor: text, filename, file_type, metadata

vars == << _granite_client, instances, analyzer, classifier, calls,
           pc, arg, tmp, ret, stores, req, last,
           heap, entities, returned, processor >>
client_vars == << _granite_client, instances, analyzer, classifier, calls >>
thread_vars == << pc, arg, tmp, ret, stores >>
ner_vars == << heap, entities, returned >>
object_vars == << heap, entities, returned, processor >>

NumThreads == 2
Threads == 1..NumThreads
MaxCalls == 3

NoOp == [op |-> "none"]

\* A dict with no keys.
EmptyDict == [k \in {} |-> 0]

\* LegalNERExtractor() and DocumentProcessor() as their __init__ leaves them.
InitObjects ==
    /\ heap = <<>>
    /\ entities = EmptyDict
    /\ returned = <<>>
    /\ processor = [text |-> "", filename |-> "", file_type |-> "",
                    metadata |-> EmptyDict]
BuiltClient == [config |-> "None", use_watsonx |-> FALSE]

\* The state at import: no client, no component constructed.
InitImport ==
    /\ _granite_client = 0
    /\ instances = <<>>
    /\ analyzer = 0
    /\ classifier = 0
    /\ calls = <<>>
    /\ pc = [t \in Threads |-> "idle"]
    /\ arg = [t \in Threads |-> "None"]
    /\ tmp = [t \in Threads |-> 0]
    /\ ret = [t \in Threads |-> 0]
    /\ stores = <<>>
    /\ last = NoOp
    /\ InitObjects
Init == InitImport /\ req = NoOp

\* The state once ClauseAnalyzer() and DocumentClassifier() have been
\* constructed with a model that loads: both hold the one client.
InitBuilt ==
    /\ _granite_client = 1
    /\ instances = << BuiltClient >>
    /\ analyzer = 1
    /\ classifier = 1
    /\ calls = <<>>
    /\ pc = [t \in Threads |-> "idle"]
    /\ arg = [t \in Threads |-> "None"]
    /\ tmp = [t \in Threads |-> 0]
    /\ ret = [t \in Threads |-> 0]
    /\ stores = <<>>
    /\ last = NoOp
    /\ InitObjects

---------------------------------------------------------------------------
(* Sequential callers of get_granite_client.                               *)

\* One call by `caller`, logged.
CallGet(caller, config, env) ==
    LET g == get_granite_client(_granite_client, instances, config, env)
    IN /\ Len(calls) < MaxCalls
       /\ _granite_client' = g.client
       /\ instances' = g.instances
       /\ calls' = Append(calls, [caller |-> caller, config |-> config,
                                  ret |-> g.ret, constructed |-> g.constructed])
       /\ analyzer' = IF caller = "ClauseAnalyzer" /\ g.exc = NoExc
                      THEN g.ret ELSE analyzer
       /\ classifier' = IF caller = "DocumentClassifier" /\ g.exc = NoExc
                        THEN g.ret ELSE classifier
       /\ UNCHANGED << thread_vars, object_vars, req, last >>

\* ClauseAnalyzer.__init__: self.granite = get_granite_client()
NewClauseAnalyzer == \E env \in Envs : CallGet("ClauseAnalyzer", "None", env)
\* DocumentClassifier.__init__: self.granite = get_granite_client()
NewDocumentClassifier == \E env \in Envs : CallGet("DocumentClassifier", "None", env)
\* A direct call, as test_granite_client makes with a GraniteConfig.
DirectGet == \E config \in Configs, env \in Envs : CallGet("direct", config, env)

NextClient == NewClauseAnalyzer \/ NewDocumentClassifier \/ DirectGet
SpecClient == Init /\ [][NextClient]_vars

---------------------------------------------------------------------------
(* get_granite_client called from several threads with no lock held: the   *)
(* statements of its body are separate steps.                              *)

\* Thread t enters get_granite_client(config).
GgcCall(t) ==
    /\ pc[t] = "idle"
    /\ \E config \in Configs : arg' = [arg EXCEPT ![t] = config]
    /\ pc' = [pc EXCEPT ![t] = "check"]
    /\ UNCHANGED << client_vars, tmp, ret, stores, object_vars, req, last >>

\* A variant under a lock held from the check to the store: the check
\* waits while another thread is between its own check and its store.
GgcCheck_locked(t) ==
    /\ pc[t] = "check"
    /\ \A u \in Threads \ {t} : pc[u] \notin {"construct", "store"}
    /\ pc' = [pc EXCEPT ![t] = IF _granite_client = 0 THEN "construct" ELSE "return"]
    /\ UNCHANGED << client_vars, arg, tmp, ret, stores, object_vars, req, last >>

\* `if _granite_client is None:`
GgcCheck(t) ==
    /\ pc[t] = "check"
    /\ pc' = [pc EXCEPT ![t] = IF _granite_client = 0 THEN "construct" ELSE "return"]
    /\ UNCHANGED << client_vars, arg, tmp, ret, stores, object_vars, req, last >>

\* `GraniteClient(config)`, the right-hand side of the assignment.
GgcConstruct(t) ==
    /\ pc[t] = "construct"
    /\ \E env \in Envs :
         LET c == GraniteClient_init(arg[t], env)
         IN IF c.exc = NoExc
            THEN /\ instances' = Append(instances, c.value)
                 /\ tmp' = [tmp EXCEPT ![t] = Len(instances) + 1]
                 /\ pc' = [pc EXCEPT ![t] = "store"]
            ELSE /\ pc' = [pc EXCEPT ![t] = "raised"]
                 /\ UNCHANGED << instances, tmp >>
    /\ UNCHANGED << _granite_client, analyzer, classifier, calls, arg, ret, stores, object_vars, req, last >>

\* `_granite_client = ...`, the store to the global.
GgcStore(t) ==
    /\ pc[t] = "store"
    /\ _granite_client' = tmp[t]
    /\ stores' = Append(stores, tmp[t])
    /\ pc' = [pc EXCEPT ![t] = "return"]
    /\ UNCHANGED << instances, analyzer, classifier, calls, arg, tmp, ret, object_vars, req, last >>

\* `return _granite_client`
GgcReturn(t) ==
    /\ pc[t] = "return"
    /\ ret' = [ret EXCEPT ![t] = _granite_client]
    /\ pc' = [pc EXCEPT ![t] = "done"]
    /\ UNCHANGED << client_vars, arg, tmp, stores, object_vars, req, last >>

NextRace ==
    \E t \in Threads :
        GgcCall(t) \/ GgcCheck(t) \/ GgcConstruct(t) \/ GgcStore(t) \/ GgcReturn(t)
SpecRace == Init /\ [][NextRace]_vars

---------------------------------------------------------------------------
(* Inputs.                                                                 *)

\* The sequences over S of length at most n.
SeqsUpTo(S, n) == UNION {[1..k -> S] : k \in 0..n}

\* Documents for extract_clauses: up to MaxLines lines, each one of: a
\* numbered clause long enough to keep, a numbered clause too short, a
\* section header, a sentence long enough for a section body, a paragraph
\* long enough for the fallback, an empty line.
MaxLines == 3
ClauseLines ==
    { "1. " \o Rep("x", 25),
      "2. pay",
      "SECTION 1 TERM",
      Rep("y", 60) \o ".",
      "secret " \o Rep("z", 101),
      "" }
ClauseTexts == {Join(ls, "\n") : ls \in SeqsUpTo(ClauseLines, MaxLines)}

\* Documents for classify_document: up to MaxPhrases phrases.
MaxPhrases == 2
DocPhrases ==
    { "lease agreement",
      "tenant rent",
      "landlord tenant Lease Agreement rental agreement",
      "NDA",
      "hello" }
DocTexts == {Join(ps, " ") : ps \in SeqsUpTo(DocPhrases, MaxPhrases)}

\* What the completion service does on a classification prompt.
AiReplies ==
    { [fails |-> FALSE,
       text |-> "Document Type: Loan Agreement\nConfidence: High\nReasoning: terms"],
      [fails |-> FALSE, text |-> "document type: a lease agreement\nconfidence: low"],
      [fails |-> FALSE, text |-> "no idea"],
      [fails |-> TRUE, text |-> "boom"] }

\* Clauses, max_length values and service behaviours for simplify_clause.
MaxLength == 6
MaxReplyLen == 10
SimplifyTexts == {"", "x", "The party shall pay.", Rep("w", 60)}
SimplifyLengths == (-1..MaxLength) \cup {DefaultMaxLength}
SimplifyReplies ==
    {[fails |-> FALSE, text |-> Rep("s", k)] : k \in 0..MaxReplyLen}
    \cup { [fails |-> FALSE, text |-> "  plain words \n"],
           [fails |-> TRUE, text |-> "boom"] }

---------------------------------------------------------------------------
(* The analysis operations.  Each is a function of its arguments (and, for *)
(* the calls that reach the completion service, of what the service does): *)
(* a behaviour starts with one call requested, in req, and the operation's *)
(* action carries it out and records it in last.                           *)

ExtractRequests ==
    {[op |-> "extract_clauses", text |-> text] : text \in ClauseTexts}
SimplifyRequests ==
    {[op |-> "simplify_clause", clause_text |-> clause_text,
      max_length |-> max_length, svc |-> svc] :
        clause_text \in SimplifyTexts, max_length \in SimplifyLengths,
        svc \in SimplifyReplies}
ClassifyRequests ==
    {[op |-> "classify_document", text |-> text, use_ai |-> use_ai, svc |-> svc] :
        text \in DocTexts, use_ai \in BOOLEAN, svc \in AiReplies}

InitClauses == InitBuilt /\ req \in ExtractRequests
InitSimplify == InitBuilt /\ req \in SimplifyRequests
InitClassify == InitBuilt /\ req \in ClassifyRequests

ExtractClauses ==
    /\ analyzer # 0
    /\ req.op = "extract_clauses" /\ last = NoOp
    /\ last' = [op |-> req.op, text |-> req.text, out |-> extract_clauses(req.text)]
    /\ UNCHANGED << client_vars, thread_vars, object_vars, req >>

SimplifyClause ==
    /\ analyzer # 0
    /\ req.op = "simplify_clause" /\ last = NoOp
    /\ last' = [op |-> req.op, clause_text |-> req.clause_text,
                max_length |-> req.max_length, svc |-> req.svc,
                out |-> simplify_clause(req.clause_text, req.max_length, req.svc)]
    /\ UNCHANGED << client_vars, thread_vars, object_vars, req >>

ClassifyDocument ==
    /\ classifier # 0
    /\ req.op = "classify_document" /\ last = NoOp
    /\ last' = [op |-> req.op, text |-> req.text, use_ai |-> req.use_ai,
                svc |-> req.svc,
                out |-> classify_document(req.text, req.use_ai, req.svc)]
    /\ UNCHANGED << client_vars, thread_vars, object_vars, req >>

SpecClauses == InitClauses /\ [][ExtractClauses]_vars
SpecSimplify == InitSimplify /\ [][SimplifyClause]_vars
SpecClassify == InitClassify /\ [][ClassifyDocument]_vars

---------------------------------------------------------------------------
(* Direct calls of _ai_classification(text, candidates): the candidate     *)
(* list may be empty, and the response is built around a known type string.*)

MaxCandidates == 2
CandidateNames == {"Lease Agreement", "Loan Agreement", "Franchise Agreement"}
CandidateLists == SeqsUpTo(CandidateNames, MaxCandidates)

\* What the response says after "Document Type:"; NoLine: no such line.
NoLine == "<no line>"
TypedStrings ==
    { "Loan Agreement", "loan agreement", "Will",
      "a Loan Agreement or an Employment Contract",
      "SERVICE AGREEMENT (lease agreement)", "", NoLine }
ReplyFor(typed) ==
    IF typed = NoLine THEN "Confidence: Low\nReasoning: unclear"
    ELSE "Confidence: High\nDocument Type:  " \o typed \o " \nReasoning: r"

AiRequests ==
    {[op |-> "_ai_classification", candidates |-> candidates, typed |-> typed,
      svc |-> [fails |-> FALSE, text |-> ReplyFor(typed)]] :
        candidates \in CandidateLists, typed \in TypedStrings}
    \cup {[op |-> "_ai_classification", candidates |-> candidates, typed |-> NoLine,
           svc |-> [fails |-> TRUE, text |-> "boom"]] :
        candidates \in CandidateLists}

InitAi == InitBuilt /\ req \in AiRequests

AiClassification ==
    /\ classifier # 0
    /\ req.op = "_ai_classification" /\ last = NoOp
    /\ last' = [op |-> req.op, candidates |-> req.candidates, typed |-> req.typed,
                svc |-> req.svc,
                out |-> _ai_classification(req.candidates, req.svc)]
    /\ UNCHANGED << client_vars, thread_vars, object_vars, req >>

SpecAi == InitAi /\ [][AiClassification]_vars

---------------------------------------------------------------------------
(* _rule_based_classification on a text and on the text with one more      *)
(* occurrence of a pattern of the catalog inserted at a position.          *)

\* A string the pattern matches: its literals, one character for a class.
RECURSIVE Occurrence(_)
Occurrence(nodes) ==
    IF nodes = <<>> THEN ""
    ELSE LET nd == Head(nodes)
         IN (IF nd.k = "lit" THEN nd.w
             ELSE IF " " \in nd.s THEN " "
             ELSE CHOOSE c \in nd.s : TRUE)
            \o Occurrence(Tail(nodes))

\* text with s inserted after its first pos characters.
InsertAt(text, pos, s) ==
    SubSeq(text, 1, pos) \o s \o SubSeq(text, pos + 1, Len(text))

ScoreTexts == {"", "lease agreement", "confidential"}
ScoreRequests ==
    {[op |-> "_rule_based_classification", text |-> text, type |-> r[1],
      pattern |-> r[2], pos |-> pos] :
        text \in ScoreTexts,
        r \in {x \in (1..NumTypes) \X (1..5) :
                  x[2] <= Len(document_signatures[x[1]].patterns)},
        pos \in 0..Max(Len("lease agreement"), Len("confidential"))}

InitScore ==
    /\ InitBuilt
    /\ req \in {r \in ScoreRequests : r.pos <= Len(r.text)}

RuleBasedClassification ==
    /\ classifier # 0
    /\ req.op = "_rule_based_classification" /\ last = NoOp
    /\ LET occurrence == Occurrence(document_signatures[req.type].patterns[req.pattern])
           inserted == InsertAt(req.text, req.pos, occurrence)
       IN last' = [op |-> req.op, text |-> req.text, type |-> req.type,
                   pos |-> req.pos, occurrence |-> occurrence, inserted |-> inserted,
                   before |-> _rule_based_classification(req.text),
                   after |-> _rule_based_classification(inserted)]
    /\ UNCHANGED << client_vars, thread_vars, object_vars, req >>

SpecScore == InitScore /\ [][RuleBasedClassification]_vars

---------------------------------------------------------------------------
(* Calls of batch_simplify.                                                *)

MaxBatch == 3
\* Clause records: a numbered clause of exactly 50 characters, a numbered
\* one of 49, a section clause (a title, no number), a record with only a
\* content.
BatchClauses ==
    { [number |-> "1.", content |-> Rep("a", 50), type |-> "Payment", word_count |-> 1],
      [number |-> "2.", content |-> Rep("b", 49), type |-> "Term", word_count |-> 1],
      [title |-> "TERM", content |-> Rep("c", 60), type |-> "Term", word_count |-> 1],
      [content |-> Rep("d", 55)] }
BatchReplies ==
    { [fails |-> FALSE, text |-> "plain words"], [fails |-> TRUE, text |-> "boom"] }
BatchRequests ==
    {[op |-> "batch_simplify", clauses |-> clauses, max_clauses |-> max_clauses,
      svcs |-> [i \in 1..Len(clauses) |-> svc]] :
        clauses \in SeqsUpTo(BatchClauses, MaxBatch),
        max_clauses \in 0..(MaxBatch + 1), svc \in BatchReplies}

InitBatch == InitBuilt /\ req \in BatchRequests

BatchSimplify ==
    /\ analyzer # 0
    /\ req.op = "batch_simplify" /\ last = NoOp
    /\ last' = [op |-> req.op, clauses |-> req.clauses,
                max_clauses |-> req.max_clauses, svcs |-> req.svcs,
                out |-> batch_simplify(req.clauses, req.max_clauses, req.svcs)]
    /\ UNCHANGED << client_vars, thread_vars, object_vars, req >>

SpecBatch == InitBatch /\ [][BatchSimplify]_vars

---------------------------------------------------------------------------
(* Calls of _identify_clause_type.                                         *)

MaxTypePhrases == 2
TypePhrases ==
    { "after midnight", "Force  Majeure", "the fee is due", "hello",
      "Intellectual Property", "TERMINATION", "we warrant", "governing\nlaw" }
TypeTexts == {Join(ps, " ") : ps \in SeqsUpTo(TypePhrases, MaxTypePhrases)}
TypeRequests == {[op |-> "_identify_clause_type", text |-> text] : text \in TypeTexts}

InitType == InitBuilt /\ req \in TypeRequests

IdentifyClauseType ==
    /\ analyzer # 0
    /\ req.op = "_identify_clause_type" /\ last = NoOp
    /\ last' = [op |-> req.op, text |-> req.text,
                out |-> _identify_clause_type(req.text)]
    /\ UNCHANGED << client_vars, thread_vars, object_vars, req >>

SpecType == InitType /\ [][IdentifyClauseType]_vars

---------------------------------------------------------------------------
(* Calls of _extract_paragraph_clauses on documents of up to MaxParagraphs *)
(* paragraphs: paragraph k is 100 characters long (one too short to keep)  *)
(* if `every` divides k, and 101 characters long otherwise.                *)

MaxParagraphs == 24
ParagraphSeparators == {"\n\n", ".\n", ".  \n \n"}
IsShort(k, every) == every > 0 /\ k % every = 0
ParagraphAt(k, every) == IF IsShort(k, every) THEN Rep("s", 100) ELSE Rep("z", 101)
ParagraphText(n, every, sep) ==
    Join([k \in 1..n |-> ParagraphAt(k, every)], sep)

ParagraphRequests ==
    {[op |-> "_extract_paragraph_clauses", n |-> n, every |-> every, sep |-> sep] :
        n \in 0..MaxParagraphs, every \in {0, 2, 3, 7}, sep \in ParagraphSeparators}

InitParagraphs == InitBuilt /\ req \in ParagraphRequests

ExtractParagraphClauses ==
    /\ analyzer # 0
    /\ req.op = "_extract_paragraph_clauses" /\ last = NoOp
    /\ last' = [op |-> req.op, n |-> req.n, every |-> req.every, sep |-> req.sep,
                out |-> _extract_paragraph_clauses(
                            ParagraphText(req.n, req.every, req.sep))]
    /\ UNCHANGED << client_vars, thread_vars, object_vars, req >>

SpecParagraphs == InitParagraphs /\ [][ExtractParagraphClauses]_vars

---------------------------------------------------------------------------
(* Calls on one LegalNERExtractor: extract_entities on each text of         *)
(* req.texts in turn, and get_summary at any time.                          *)

ExtractEntities ==
    /\ req.op = "ner" /\ Len(returned) < Len(req.texts)
    /\ LET text == req.texts[Len(returned) + 1]
           done == extract_entities_call(heap, entities, text)
       IN /\ heap' = done.heap
          /\ entities' = done.entities
          /\ returned' = Append(returned, entities')
          /\ last' = [op |-> "extract_entities", text |-> text]
    /\ UNCHANGED << client_vars, thread_vars, processor, req >>

GetSummary ==
    /\ req.op = "ner"
    /\ last' = [op |-> "get_summary", out |-> get_summary(heap, entities)]
    /\ UNCHANGED << client_vars, thread_vars, object_vars, req >>

NextNer == ExtractEntities \/ GetSummary

\* One document: a snippet holding `per` entities of one category, repeated
\* until there are more entities than the category's cap (up to ExtraRepeats
\* times more); or the first terms of the legal vocabulary; or a text with
\* entities of every kind.
ExtraRepeats == 1
NerSnippets ==
    { [text |-> "between Ab and Cd ", per |-> 2, cap |-> MaxParties],
      [text |-> "Acme LLC ", per |-> 1, cap |-> MaxParties],
      [text |-> "2024-01-15 ", per |-> 1, cap |-> MaxDates],
      [text |-> "$5 ", per |-> 1, cap |-> MaxAmounts],
      [text |-> "x shall. ", per |-> 1, cap |-> MaxObligations],
      [text |-> "a@b.co ", per |-> 1, cap |-> MaxContacts],
      [text |-> "no match ", per |-> 1, cap |-> 2] }
TermsText(n) == Join(SubSeq(legal_terms, 1, Min(n, Len(legal_terms))), " ")
MixedText ==
    "This Agreement is made between Acme Corp. and Beta LLC, on January 5, 2024. The tenant shall pay $1,000.00; call 555-123-4567."
NerTexts ==
    UNION {{Rep(s.text, n) : n \in 0..(s.cap \div s.per + ExtraRepeats)} :
             s \in NerSnippets}
    \cup {TermsText(n) : n \in 0..(MaxLegalTerms + ExtraRepeats)}
    \cup {MixedText}
InitNer == InitImport /\ req \in {[op |-> "ner", texts |-> <<t>>] : t \in NerTexts}
SpecNer == InitNer /\ [][NextNer]_vars

\* Several documents, one after the other, on the same instance.
MaxNerCalls == 3
NerCallTexts ==
    { "", "between Ab and Cd on 2024-01-15.", "Acme LLC shall pay $5; notice a@b.co" }
InitNerCalls ==
    InitImport /\ req \in {[op |-> "ner", texts |-> q] : q \in SeqsUpTo(NerCallTexts, MaxNerCalls)}
SpecNerCalls == InitNerCalls /\ [][NextNer]_vars

---------------------------------------------------------------------------
(* Calls of process_file on one DocumentProcessor, one after the other:    *)
(* req.files[k] is the path of the k-th call and what extracting that file *)
(* does.                                                                   *)

MaxFiles == 2
FilePaths == {"a.txt", "docs/b.PDF", "c.docx", "d.exe", "notes"}
FileTexts ==
    { "1. The  tenant shall pay.\n\nPage 1 of 2\nThe lease is hereby made; breach ends it.",
      "Whereas the parties agree. " }
Extractions ==
    {Returned(t) : t \in FileTexts} \cup {Raised("Error extracting file")}
Supported(file_path) ==
    \E i \in 1..Len(SUPPORTED_FORMATS) :
        SUPPORTED_FORMATS[i] = str_lower(path_suffix(file_path))
\* A file of an unsupported type is never opened: one extraction stands for all.
Files ==
    {[path |-> p, extraction |-> e] : p \in {q \in FilePaths : Supported(q)},
                                      e \in Extractions}
    \cup {[path |-> p, extraction |-> Raised("Error extracting file")] :
             p \in {q \in FilePaths : ~Supported(q)}}
ProcessRequests == {[op |-> "process_file", files |-> q] : q \in SeqsUpTo(Files, MaxFiles)}
InitProcess == InitImport /\ req \in ProcessRequests

ProcessFile ==
    /\ req.op = "process_file"
    /\ LET n == IF last = NoOp THEN 1 ELSE last.n + 1
       IN /\ n <= Len(req.files)
          /\ LET done == process_file(processor, req.files[n].path,
                                      req.files[n].extraction)
             IN /\ processor' = done.processor
                /\ last' = [op |-> "process_file", n |-> n,
                            file_path |-> req.files[n].path,
                            before |-> processor,
                            exc |-> done.exc, value |-> done.value]
    /\ UNCHANGED << client_vars, thread_vars, ner_vars, req >>

SpecProcess == InitProcess /\ [][ProcessFile]_vars

\* ---- _clean_text on its own, applied once and then again to its result ----

MaxPieces == 3
MaxCleanups == 2
CleanPieces == {"a", " ", "\n\n", "Page 1 of 2", "page", " 3 ", "\t"}
CleanTexts == {Join(q, "") : q \in SeqsUpTo(CleanPieces, MaxPieces)}
InitClean == InitImport /\ req \in {[op |-> "_clean_text", text |-> t] : t \in CleanTexts}

CleanText ==
    /\ req.op = "_clean_text"
    /\ LET n == IF last = NoOp THEN 1 ELSE last.n + 1
           text == IF last = NoOp THEN req.text ELSE last.out
       IN /\ n <= MaxCleanups
          /\ last' = [op |-> "_clean_text", n |-> n, text |-> text,
                      out |-> _clean_text(text)]
    /\ UNCHANGED << client_vars, thread_vars, object_vars, req >>

SpecClean == InitClean /\ [][CleanText]_vars

---------------------------------------------------------------------------
(* The component tests of demo.py, each run in a fresh process: the test   *)
(* constructs its component and calls it inside one try block, and reports *)
(* failure if anything raised.  req.env is what loading the model does.    *)

PipelineRequests ==
    {[op |-> "test_document_classifier", text |-> text, env |-> env] :
        text \in DocTexts, env \in Envs}
    \cup {[op |-> "test_clause_analyzer", text |-> text, env |-> env] :
        text \in ClauseTexts, env \in Envs}

InitPipeline == InitImport /\ req \in PipelineRequests

\* classifier = DocumentClassifier(); classifier.classify_document(text, use_ai=False)
test_document_classifier ==
    LET g == get_granite_client(_granite_client, instances, "None", req.env)
    IN /\ req.op = "test_document_classifier" /\ last = NoOp
       /\ _granite_client' = g.client
       /\ instances' = g.instances
       /\ last' = IF g.exc = NoExc
                  THEN [op |-> req.op, text |-> req.text, env |-> req.env, ok |-> TRUE,
                        out |-> classify_document(req.text, FALSE,
                                   [fails |-> TRUE, text |-> "unavailable"]).result]
                  ELSE [op |-> req.op, text |-> req.text, env |-> req.env, ok |-> FALSE,
                        out |-> g.exc]
       /\ UNCHANGED << analyzer, classifier, calls, thread_vars, object_vars, req >>

\* analyzer = ClauseAnalyzer(); analyzer.extract_clauses(text)
test_clause_analyzer ==
    LET g == get_granite_client(_granite_client, instances, "None", req.env)
    IN /\ req.op = "test_clause_analyzer" /\ last = NoOp
       /\ _granite_client' = g.client
       /\ instances' = g.instances
       /\ last' = IF g.exc = NoExc
                  THEN [op |-> req.op, text |-> req.text, env |-> req.env, ok |-> TRUE,
                        out |-> extract_clauses(req.text).clauses]
                  ELSE [op |-> req.op, text |-> req.text, env |-> req.env, ok |-> FALSE,
                        out |-> g.exc]
       /\ UNCHANGED << analyzer, classifier, calls, thread_vars, object_vars, req >>

NextPipeline == test_document_classifier \/ test_clause_analyzer
SpecPipeline == InitPipeline /\ [][NextPipeline]_vars

---------------------------------------------------------------------------
(* Properties.                                                             *)

Range(f) == {f[i] : i \in DOMAIN f}

\* C1: in every call of extract_clauses the strategies run as a cascade:
\* the numbered strategy always runs first, the section strategy is invoked
\* only if the numbered one returned no clause, the paragraph strategy only
\* if both returned none, and the clauses returned are exactly the output
\* of the first strategy with a non-empty result (the paragraph strategy's
\* output if there is none).
C1_Cascade ==
    last.op = "extract_clauses" =>
        LET numbered == _extract_numbered_clauses(last.text)
            section == _extract_section_clauses(last.text)
            paragraph == _extract_paragraph_clauses(last.text)
            ran == last.out.ran
        IN /\ ran \in {<<"numbered">>, <<"numbered", "section">>,
                       <<"numbered", "section", "paragraph">>}
           /\ "section" \in Range(ran) <=> numbered = <<>>
           /\ "paragraph" \in Range(ran) <=> (numbered = <<>> /\ section = <<>>)
           /\ last.out.clauses = IF numbered # <<>> THEN numbered
                                 ELSE IF section # <<>> THEN section
                                 ELSE paragraph

\* A call on a text in which both the numbered and the section strategy
\* would find clauses: only the numbered strategy ran.
C1_Witness ==
    /\ last.op = "extract_clauses"
    /\ _extract_numbered_clauses(last.text) # <<>>
    /\ _extract_section_clauses(last.text) # <<>>
    /\ last.out.ran = <<"numbered">>
    /\ last.out.clauses = _extract_numbered_clauses(last.text)

\* C2: over any sequence of get_granite_client calls (by ClauseAnalyzer,
\* DocumentClassifier and direct callers), once a call has returned a
\* client, no later call runs the GraniteClient constructor and every later
\* call returns that same client, whatever its config; so at most one
\* client is ever constructed.
C2_Memoized ==
    /\ \A i, j \in 1..Len(calls) :
         (i < j /\ calls[i].ret # 0) =>
            /\ calls[j].ret = calls[i].ret
            /\ ~calls[j].constructed
    /\ Len(instances) <= 1
    /\ \A i \in 1..Len(calls) : calls[i].ret \in {0, _granite_client}

\* A later call by another caller, with another config, got the first
\* call's client.
C2_Witness ==
    \E i, j \in 1..Len(calls) :
        /\ i < j
        /\ calls[i].ret # 0
        /\ calls[j].caller # calls[i].caller
        /\ calls[j].config # calls[i].config
        /\ calls[j].config # instances[calls[j].ret].config
        /\ calls[j].ret = calls[i].ret

\* C3: get_granite_client has no mutual exclusion around its check, its
\* construction and its store: a thread at the check of a None global goes
\* on to construct whatever the other threads are doing, every thread that
\* passed the check constructs a client of its own, the global is the
\* client stored last, and each caller returns a client that was stored.
C3_NoMutualExclusion ==
    /\ \A t \in Threads :
         (pc[t] = "check" /\ _granite_client = 0) =>
             ENABLED (GgcCheck(t) /\ pc'[t] = "construct")
    /\ Len(instances) = Cardinality({t \in Threads : tmp[t] # 0})
    /\ _granite_client = IF stores = <<>> THEN 0 ELSE stores[Len(stores)]
    /\ \A t \in Threads : pc[t] = "done" => ret[t] \in Range(stores)

\* Two callers interleaved at first access: two clients constructed, the
\* callers hold different ones, the global is the one written last.
C3_Witness ==
    /\ Len(instances) = 2
    /\ \A t \in Threads : pc[t] = "done"
    /\ \E t, u \in Threads : ret[t] # 0 /\ ret[u] # 0 /\ ret[t] # ret[u]
    /\ Len(stores) = 2
    /\ _granite_client = stores[2]

\* C4: when the text-completion service is unavailable (here: the client
\* cannot be constructed), the parts that need no AI still return their
\* normal rule-based output: the classifier test with use_ai = False and
\* the clause extraction test succeed.
C4_NonAiPartsSurvive ==
    (last.op \in {"test_document_classifier", "test_clause_analyzer"}
        /\ ~last.env.hf_ok) =>
            /\ last.ok
            /\ last.op = "test_clause_analyzer" =>
                   last.out = extract_clauses(last.text).clauses
            /\ last.op = "test_document_classifier" =>
                   last.out.method = "Rule-based"

\* C5: simplify_clause never raises: for every clause text (the empty one
\* included), every max_length and every behaviour of the completion
\* service, it returns a record with original, simplified, the two lengths
\* and reduction_percentage.
C5_SimplifyNeverRaises ==
    last.op = "simplify_clause" =>
        /\ last.out.exc = NoExc
        /\ {"original", "simplified", "original_length", "simplified_length",
            "reduction_percentage"} \subseteq DOMAIN last.out.value
        /\ last.out.value.original = last.clause_text
        /\ last.out.value.original_length = Len(last.clause_text)

\* A call on the empty clause, whose try block raised: the record of the
\* except branch was returned.
C5_Witness ==
    /\ last.op = "simplify_clause"
    /\ last.clause_text = ""
    /\ simplify_try(last.clause_text, last.max_length, last.svc).exc # NoExc
    /\ last.out.exc = NoExc
    /\ "error" \in DOMAIN last.out.value

\* C6: whenever the completion service call fails during simplify_clause,
\* the record has reduction_percentage = 0, an error message in simplified
\* and the error in a separate error field; a record without an error
\* field is returned only when the service call succeeded.
C6_ServiceFailureRecorded ==
    (last.op = "simplify_clause" /\ last.out.exc = NoExc) =>
        /\ last.svc.fails =>
              /\ last.out.value.reduction_percentage = 0
              /\ str_in(last.svc.text, last.out.value.simplified)
              /\ "error" \in DOMAIN last.out.value
        /\ "error" \notin DOMAIN last.out.value => ~last.svc.fails

\* C7: for every clause text (the empty one included), every max_length
\* N >= 0 and every response of the service, the simplified field has at
\* most N + 3 characters.
C7_SimplifiedLength ==
    (last.op = "simplify_clause" /\ last.out.exc = NoExc /\ last.max_length >= 0) =>
        Len(last.out.value.simplified) <= last.max_length + 3

\* C8: when the completion call fails during an escalated classification,
\* classify_document still returns a result whose document_type is the top
\* rule-based candidate and whose reasoning shows the failure.
C8_AiFailureVisible ==
    (last.op = "classify_document" /\ last.out.generate_calls = 1
        /\ last.svc.fails) =>
            /\ last.out.result.document_type
                   = last.out.result.rule_based_scores[1].type
            /\ str_in(last.svc.text, last.out.result.reasoning)

\* The highest rule-based score of a text.
TopScore(text) ==
    LET scores == _rule_based_classification(text)
    IN CHOOSE s \in Range(scores) : \A i \in DOMAIN scores : scores[i] <= s

\* C9: classify_document reports method "AI-enhanced" exactly when use_ai
\* is true and the highest rule-based score is below 5, and calls the
\* completion service only then; otherwise it reports "Rule-based", the
\* top-scoring candidate as document_type and min(10 * top score, 100) as
\* confidence.
C9_Escalation ==
    last.op = "classify_document" =>
        LET r == last.out.result
            scores == _rule_based_classification(last.text)
            top == TopScore(last.text)
            escalated == last.use_ai /\ top < 5
        IN /\ r.method = "AI-enhanced" <=> escalated
           /\ last.out.generate_calls = (IF escalated THEN 1 ELSE 0)
           /\ ~escalated =>
                 /\ r.method = "Rule-based"
                 /\ \E i \in 1..NumTypes :
                       /\ document_signatures[i].name = r.document_type
                       /\ scores[i] = top
                 /\ r.confidence = Min(10 * top, 100)

\* A call with use_ai true on a text whose top score is exactly 5: not
\* escalated, no call of the service.
C9_Witness ==
    /\ last.op = "classify_document"
    /\ last.use_ai
    /\ TopScore(last.text) = 5
    /\ last.out.result.method = "Rule-based"
    /\ last.out.result.confidence = 50
    /\ last.out.generate_calls = 0

\* C10: for every text, every use_ai and every response or failure of the
\* completion service, the confidence classify_document returns lies in
\* [0, 100].
C10_ConfidenceRange ==
    last.op = "classify_document" =>
        last.out.result.confidence \in 0..100

\* A rule-based call on a text scoring above 10: the confidence is clamped
\* to 100.
C10_Witness ==
    /\ last.op = "classify_document"
    /\ TopScore(last.text) > 10
    /\ last.out.result.method = "Rule-based"
    /\ last.out.result.confidence = 100

\* The position of a document type in the catalog's declaration order.
CatalogIndex(type) == CHOOSE i \in 1..NumTypes : document_signatures[i].name = type

\* C11: on both paths rule_based_scores has exactly three catalog entries,
\* the three highest-scoring types, in non-increasing score order, and of
\* two types of equal score the one declared earlier in the catalog is
\* listed first (and preferred to an unlisted one, and selected first).
C11_TopThree ==
    last.op = "classify_document" =>
        LET top == last.out.result.rule_based_scores
            scores == _rule_based_classification(last.text)
            idx(k) == CatalogIndex(top[k].type)
            listed == {idx(k) : k \in 1..Len(top)}
        IN /\ Len(top) = 3
           /\ \A k \in 1..3 : top[k].type \in CatalogKeys
                              /\ top[k].score = scores[idx(k)]
           /\ Cardinality(listed) = 3
           /\ \A k \in 1..2 :
                 \/ top[k].score > top[k + 1].score
                 \/ (top[k].score = top[k + 1].score /\ idx(k) < idx(k + 1))
           /\ \A i \in (1..NumTypes) \ listed :
                 \/ scores[i] < top[3].score
                 \/ (scores[i] = top[3].score /\ i > idx(3))
           /\ last.out.result.method = "Rule-based" =>
                 last.out.result.document_type = top[1].type

\* A call whose highest score belongs to a type declared late, with equal
\* scores behind it: the tie is cut in catalog order, leaving out a type of
\* the same score as the third listed.
C11_Witness ==
    /\ last.op = "classify_document"
    /\ LET top == last.out.result.rule_based_scores
           scores == _rule_based_classification(last.text)
       IN /\ top[1].score > top[2].score
          /\ top[2].score = top[3].score
          /\ CatalogIndex(top[1].type) > CatalogIndex(top[3].type)
          /\ CatalogIndex(top[2].type) < CatalogIndex(top[3].type)
          /\ \E i \in 1..NumTypes :
                i > CatalogIndex(top[3].type) /\ scores[i] = top[3].score
                /\ document_signatures[i].name # top[1].type

\* The catalog keys that are a case-insensitive substring of s, by index.
KeysWithin(s) ==
    {i \in 1..NumTypes : str_in(str_lower(document_signatures[i].name), str_lower(s))}

\* C12: on the AI path the type is the string parsed from the response if
\* it equals a catalog key; otherwise the first catalog key, in catalog
\* order, that is a case-insensitive substring of it; otherwise the top
\* candidate; "Unknown" only without candidates.  It is never empty, also
\* when the response has no "Document Type:" line.
C12_TypeResolution ==
    last.op = "_ai_classification" =>
        LET typed == IF last.typed = NoLine THEN "" ELSE last.typed
            within == KeysWithin(typed)
            type == last.out.type
        IN /\ type # ""
           /\ typed \in CatalogKeys => type = typed
           /\ (typed \notin CatalogKeys /\ within # {}) =>
                 /\ CatalogIndex(type) \in within
                 /\ \A i \in within : CatalogIndex(type) <= i
           /\ (typed \notin CatalogKeys /\ within = {}) =>
                 type = IF last.candidates # <<>> THEN last.candidates[1]
                        ELSE "Unknown"
           /\ type = "Unknown" => last.candidates = <<>>

\* A response naming two catalog types inside a longer phrase, the one
\* declared first in the catalog coming second in the phrase: that one is
\* the result, not the candidate.
C12_Witness ==
    /\ last.op = "_ai_classification"
    /\ last.typed = "a Loan Agreement or an Employment Contract"
    /\ last.candidates # <<>>
    /\ last.out.type = "Employment Contract"
    /\ last.out.type # last.candidates[1]

\* C13 as claimed: inserting one more occurrence of one of a type's scored
\* patterns anywhere into the text never lowers that type's score.
C13_InsertAnywhere ==
    last.op = "_rule_based_classification" =>
        last.after[last.type] >= last.before[last.type]

\* C13, amended: adding one more occurrence of one of a type's scored
\* patterns at the start or at the end of the text never lowers that
\* type's score.
C13_AddAtEnds ==
    (last.op = "_rule_based_classification" /\ last.pos \in {0, Len(last.text)}) =>
        last.after[last.type] >= last.before[last.type]

\* An occurrence appended to a text that already scores for the type: the
\* score went up by the weight of one more match.
C13_Witness ==
    /\ last.op = "_rule_based_classification"
    /\ last.text # "" /\ last.pos = Len(last.text)
    /\ last.before[last.type] > 0
    /\ last.after[last.type] = last.before[last.type] + PatternWeight

\* The positions among the first max_clauses of clauses whose content has at
\* least 50 characters.
Eligible(clauses, max_clauses) ==
    {i \in 1..Min(max_clauses, Len(clauses)) :
        "content" \in DOMAIN clauses[i] /\ Len(clauses[i].content) >= 50}

\* C14: batch_simplify returns, in input order, exactly one record for each
\* clause among the first max_clauses whose content has at least 50
\* characters; no clause past position max_clauses is simplified, so there
\* are at most max_clauses records, and each record carries the locator and
\* the type of its source clause.
C14_BatchSimplify ==
    last.op = "batch_simplify" =>
        LET src == Eligible(last.clauses, last.max_clauses)
            at(k) == CHOOSE i \in src : Cardinality({j \in src : j < i}) = k - 1
            results == last.out.results
        IN /\ Len(results) = Cardinality(src)
           /\ Len(results) <= last.max_clauses
           /\ last.out.generate_calls = Cardinality(src)
           /\ \A k \in 1..Len(results) :
                 LET clause == last.clauses[at(k)]
                 IN /\ results[k].original = clause.content
                    /\ "simplified" \in DOMAIN results[k]
                    /\ results[k].number =
                          (IF "number" \in DOMAIN clause THEN clause.number
                           ELSE IF "title" \in DOMAIN clause THEN clause.title
                           ELSE "Clause " \o ToString(at(k)))
                    /\ results[k].type =
                          (IF "type" \in DOMAIN clause THEN clause.type
                           ELSE "General")

\* A call in which a short clause among the first max_clauses was skipped
\* and a long enough clause lies past position max_clauses: fewer than
\* max_clauses records, the later clause not simplified.
C14_Witness ==
    /\ last.op = "batch_simplify"
    /\ last.max_clauses = 2
    /\ Len(last.clauses) = 3
    /\ Len(last.clauses[1].content) < 50
    /\ Len(last.clauses[3].content) >= 50
    /\ Len(last.out.results) = 1
    /\ last.out.results[1].original = last.clauses[2].content
    /\ last.out.results[1].number = "TERM"

\* The number of whitespace-separated tokens of s, counted at their ends.
Tokens(s) ==
    Cardinality({i \in 1..Len(s) :
        /\ SubSeq(s, i, i) \notin SpaceSet
        /\ (i = Len(s) \/ SubSeq(s, i + 1, i + 1) \in SpaceSet)})

\* C15: every clause record extract_clauses returns, whichever strategy
\* produced it, has word_count equal to the number of whitespace-separated
\* tokens of its content, and its content neither starts nor ends with
\* whitespace.
C15_WordCount ==
    last.op = "extract_clauses" =>
        \A k \in 1..Len(last.out.clauses) :
            LET clause == last.out.clauses[k]
                n == Len(clause.content)
            IN /\ clause.word_count = Tokens(clause.content)
               /\ n > 0
               /\ SubSeq(clause.content, 1, 1) \notin SpaceSet
               /\ SubSeq(clause.content, n, n) \notin SpaceSet

\* A call that returned a clause whose content spans two lines: it counts
\* the words on both.
C15_Witness ==
    /\ last.op = "extract_clauses"
    /\ \E k \in 1..Len(last.out.clauses) :
          /\ str_in("\n", last.out.clauses[k].content)
          /\ last.out.clauses[k].word_count >= 2
    /\ Len(last.text) > Len(str_strip(last.text))

\* The labels of the clause type vocabulary and the fallback keywords.
TypeLabels ==
    { "Definitions", "Scope", "Term", "Termination", "Payment", "Confidentiality",
      "Intellectual Property", "Warranties", "Liability", "Indemnification",
      "Force Majeure", "Dispute Resolution", "Governing Law", "Notices",
      "Amendments", "Severability" }
FallbackKeywords ==
    { "define", "definition", "means", "terminate", "termination", "cancel",
      "pay", "payment", "fee", "compensation", "confidential", "secret",
      "proprietary", "liable", "liability", "responsible", "warrant",
      "guarantee", "represent" }

C17_ParagraphCap ==
    last.op = "_extract_paragraph_clauses" =>
        LET qualifying == {k \in 1..last.n : ~IsShort(k, last.every)}
            at(j) == CHOOSE k \in qualifying :
                        Cardinality({i \in qualifying : i < k}) = j - 1
            out == last.out
        IN /\ Len(out) <= 20
           /\ Len(out) = Min(Cardinality(qualifying), 20)
           /\ \A j \in 1..Len(out) :
                 /\ out[j].number = "P" \o ToString(at(j))
                 /\ Len(out[j].content) > 100

\* A document with more than 20 qualifying paragraphs and too short ones in
\* between: 20 clauses, the locators not consecutive.
C17_Witness ==
    /\ last.op = "_extract_paragraph_clauses"
    /\ last.every = 7
    /\ Len(last.out) = 20
    /\ last.out[20].number # "P20"
    /\ Cardinality({k \in 1..last.n : ~IsShort(k, last.every)}) > 20

\* The cap of each category.
CategoryCap ==
    [parties |-> MaxParties, dates |-> MaxDates, monetary_values |-> MaxAmounts,
     obligations |-> MaxObligations, legal_terms |-> MaxLegalTerms,
     contact_info |-> MaxContacts]

\* C18: every extract_entities call returns (whether or not any pattern
\* matched) a mapping with exactly the six categories parties, dates,
\* monetary_values, obligations, legal_terms and contact_info, each a list
\* no longer than its cap: 10, 20, 15, 20, 15 and 10.
C18_SixCappedCategories ==
    /\ last.op = "extract_entities" => Len(returned) >= 1
    /\ \A k \in 1..Len(returned) :
          LET result == Deref(heap, returned[k])
          IN /\ DOMAIN result = {"parties", "dates", "monetary_values",
                                 "obligations", "legal_terms", "contact_info"}
             /\ \A c \in DOMAIN result :
                   /\ result[c] \in Seq(Range(result[c]))
                   /\ Len(result[c]) <= CategoryCap[c]
             /\ Len(result.parties) <= 10 /\ Len(result.dates) <= 20
             /\ Len(result.monetary_values) <= 15 /\ Len(result.obligations) <= 20
             /\ Len(result.legal_terms) <= 15 /\ Len(result.contact_info) <= 10

\* A document with more parties than the cap has been analysed: ten are
\* returned.
C18_Witness ==
    /\ last.op = "extract_entities"
    /\ Len(all_parties(last.text)) > MaxParties
    /\ Len(Deref(heap, returned[1]).parties) = MaxParties

\* The lengths of the lists of a result.
Lengths(result) == [c \in DOMAIN result |-> Len(result[c])]

\* C19: on one LegalNERExtractor, after any sequence of extract_entities
\* calls, every result returned so far (the latest and the earlier ones
\* alike) holds exactly what extract_entities gives for its text on a new
\* instance; and get_summary reports the list lengths of the most recent
\* call's result, all zeros before any call.
C19_NoSharedState ==
    /\ \A k \in 1..Len(returned) :
          Deref(heap, returned[k]) = extract_entities(req.texts[k])
    /\ last.op = "get_summary" =>
          last.out = IF Len(returned) = 0
                     THEN [c \in {"parties", "dates", "monetary_values", "obligations",
                                  "legal_terms", "contact_info"} |-> 0]
                     ELSE Lengths(Deref(heap, returned[Len(returned)]))

\* Three documents were analysed, the first and the last with different
\* parties found, and the summary was then asked for.
C19_Witness ==
    /\ Len(returned) = MaxNerCalls
    /\ last.op = "get_summary"
    /\ Len(Deref(heap, returned[1]).parties) > 0
    /\ Len(Deref(heap, returned[MaxNerCalls]).parties) > 0
    /\ Deref(heap, returned[1]).parties # Deref(heap, returned[MaxNerCalls]).parties
    /\ Deref(heap, returned[2]) # Deref(heap, returned[MaxNerCalls])

\* C20: after a process_file call that failed (unsupported extension, or an
\* error while extracting), the processor's text, filename, file_type and
\* metadata are what they were before the call.
C20_FailureLeavesStateUnchanged ==
    (last.op = "process_file" /\ last.exc # NoExc) =>
        /\ processor.text = last.before.text
        /\ processor.filename = last.before.filename
        /\ processor.file_type = last.before.file_type
        /\ processor.metadata = last.before.metadata

\* The field of a record of each category that holds the matched string.
SurfaceField ==
    [parties |-> "name", dates |-> "date", monetary_values |-> "amount",
     obligations |-> "clause", legal_terms |-> "term", contact_info |-> "value"]

\* C21: every entity record of every result of extract_entities, in each of
\* the six categories, has the field with the matched string and a context
\* field.
C21_RecordsCarryContext ==
    \A k \in 1..Len(returned) :
       \A c \in DOMAIN returned[k] :
          \A i \in 1..Len(heap[returned[k][c]]) :
             /\ SurfaceField[c] \in DOMAIN heap[returned[k][c]][i]
             /\ "context" \in DOMAIN heap[returned[k][c]][i]

\* The catalog names whose space-stripped form occurs in the lowercased,
\* space-stripped text.
NamesIn(text) ==
    {i \in 1..Len(clause_types) :
        str_in(str_nospace(clause_types[i]), str_nospace(str_lower(text)))}

\* C22: if the space-stripped name of a catalog type T occurs in the
\* lowercased, space-stripped text, and every other catalog name that occurs
\* in it is contained in T's name, then _identify_clause_type returns T's
\* label.
C22_LongestNameWins ==
    last.op = "_identify_clause_type" =>
        \A T \in NamesIn(last.text) :
            (\A U \in NamesIn(last.text) \ {T} :
                str_in(str_nospace(clause_types[U]), str_nospace(clause_types[T])))
            => last.out = str_title(clause_types[T])

\* A pattern matched without regard to case.
IgnoreCase(nodes) ==
    [i \in 1..Len(nodes) |->
        IF nodes[i].k = "lit" THEN LitIC(nodes[i].w) ELSE nodes[i]]

\* The number of keywords of catalog entry i that occur in the text, case
\* ignored, plus twice the number of matches in the text of its patterns.
KeywordsPlusMatches(i, text) ==
    Cardinality({k \in 1..Len(document_signatures[i].keywords) :
                    str_in(str_lower(document_signatures[i].keywords[k]),
                           str_lower(text))})
    + 2 * SumSeq([p \in 1..Len(document_signatures[i].patterns) |->
                    re_count(IgnoreCase(document_signatures[i].patterns[p]), text)], 1)

\* C23: the rule-based score of each document type is the number of its
\* keywords that occur in the text (each counted once, case ignored) plus
\* 2 for every match of one of its patterns in the text.
C23_ScoreFormula ==
    last.op = "_rule_based_classification" =>
        \A i \in 1..NumTypes :
            /\ last.before[i] = KeywordsPlusMatches(i, last.text)
            /\ last.after[i] = KeywordsPlusMatches(i, last.inserted)

\* The catalog entry i without its pattern p.
WithoutPattern(i, p) ==
    [document_signatures[i] EXCEPT
        !.patterns = SubSeq(@, 1, p - 1) \o SubSeq(@, p + 1, Len(@))]

\* C24: the acronym patterns are scored like the others: the score of
\* 'Non-Disclosure Agreement (NDA)' is what its keywords and other patterns
\* give plus 2 for each occurrence of 'NDA' in the document, and the score
\* of 'Service Agreement' likewise with 'SOW'.
C24_AcronymsScored ==
    last.op = "_rule_based_classification" =>
        /\ last.after[1] = signature_score(WithoutPattern(1, 2), str_lower(last.inserted))
                           + 2 * re_count(<< Lit("NDA") >>, last.inserted)
        /\ last.after[4] = signature_score(WithoutPattern(4, 5), str_lower(last.inserted))
                           + 2 * re_count(<< Lit("SOW") >>, last.inserted)

\* The value after the colon of the last line of a response that holds
\* 'confidence:' (and not 'document type:'), "" if there is none.
RECURSIVE ConfidenceLine(_, _)
ConfidenceLine(lines, i) ==
    IF i = 0 THEN ""
    ELSE IF str_in("confidence:", str_lower(lines[i]))
            /\ ~str_in("document type:", str_lower(lines[i]))
    THEN AfterColon(lines[i])
    ELSE ConfidenceLine(lines, i - 1)

\* C25: on the AI-enhanced path the confidence is 50 if the service call
\* failed; otherwise it is 90, 70 or 50 for a confidence line of High,
\* Medium or Low (case ignored) and 70 for any other or no confidence line.
C25_AiConfidence ==
    (last.op = "classify_document" /\ last.out.result.method = "AI-enhanced") =>
        LET word == str_lower(ConfidenceLine(
                        re_split(<< Lit("\n") >>, last.svc.text),
                        Len(re_split(<< Lit("\n") >>, last.svc.text))))
        IN /\ last.out.result.confidence \in {90, 70, 50}
           /\ last.svc.fails => last.out.result.confidence = 50
           /\ ~last.svc.fails =>
                last.out.result.confidence =
                    (IF word = "high" THEN 90 ELSE IF word = "low" THEN 50 ELSE 70)

\* The minimum length of the strategy that produced the clauses of a call:
\* the last one the call ran.
MinLengthOf(strategy) ==
    IF strategy = "numbered" THEN MinClauseLength
    ELSE IF strategy = "section" THEN MinSectionLength ELSE MinParagraphLength

\* C26: every clause extract_clauses returns has a content longer than the
\* minimum of the strategy that produced it (20 numbered, 50 section, 100
\* paragraph); and a text shorter than 100 characters in which neither the
\* numbered-label pattern nor the section-header pattern matches gives no
\* clause.
C26_MinimumLengths ==
    last.op = "extract_clauses" =>
        /\ \A k \in 1..Len(last.out.clauses) :
              Len(last.out.clauses[k].content)
                  > MinLengthOf(last.out.ran[Len(last.out.ran)])
        /\ (/\ Len(last.text) < MinParagraphLength
            /\ Len(re_finditer(numbered_pattern, last.text)) = 0
            /\ Len(re_finditer(header_pattern, last.text)) = 0)
              => last.out.clauses = <<>>

\* A document with a numbered label too short to keep and a paragraph long
\* enough: the numbered and section strategies found nothing and the
\* paragraph strategy produced the clause.
C26_Witness ==
    /\ last.op = "extract_clauses"
    /\ Len(re_finditer(numbered_pattern, last.text)) > 0
    /\ last.out.ran = << "numbered", "section", "paragraph" >>
    /\ Len(last.out.clauses) > 0

\* ---- chunk_text, one loop iteration at a time ----

MaxChunkText == 5
MaxChunkSize == 4
MaxChunks == 7
ChunkChars == {"a", ".", " "}
ChunkTexts == {Join(q, "") : q \in SeqsUpTo(ChunkChars, MaxChunkText)}
ChunkRequests ==
    {[op |-> "chunk_text", chunk_size |-> c, overlap |-> o] :
        c \in 1..MaxChunkSize, o \in 0..(MaxChunkSize - 1)}

\* A processor that holds a document's text, and a call whose chunk_size
\* exceeds its overlap.
InitChunk ==
    /\ _granite_client = 0
    /\ instances = <<>>
    /\ analyzer = 0
    /\ classifier = 0
    /\ calls = <<>>
    /\ pc = [t \in Threads |-> "idle"]
    /\ arg = [t \in Threads |-> "None"]
    /\ tmp = [t \in Threads |-> 0]
    /\ ret = [t \in Threads |-> 0]
    /\ stores = <<>>
    /\ last = NoOp
    /\ heap = <<>>
    /\ entities = EmptyDict
    /\ returned = <<>>
    /\ processor \in {[text |-> t, filename |-> "a.txt", file_type |-> "txt",
                       metadata |-> EmptyDict] : t \in ChunkTexts}
    /\ req \in {r \in ChunkRequests : r.chunk_size > r.overlap}

\* The call, up to the loop's first test: an empty text returns at once.
ChunkTextCall ==
    /\ req.op = "chunk_text"
    /\ last = NoOp
    /\ last' = [op |-> "chunk_text",
                at |-> IF processor.text = "" THEN "returned" ELSE "loop",
                start |-> 0, chunks |-> <<>>]
    /\ UNCHANGED << client_vars, thread_vars, object_vars, req >>

\* One iteration of the loop.
ChunkTextIterate ==
    /\ last.op = "chunk_text"
    /\ last.at = "loop"
    /\ last.start < Len(processor.text)
    /\ Len(last.chunks) < MaxChunks
    /\ LET step == chunk_step(processor.text, last.start, req.chunk_size, req.overlap)
       IN last' = [last EXCEPT !.start = step.start,
                               !.chunks = Append(last.chunks, step.chunk)]
    /\ UNCHANGED << client_vars, thread_vars, object_vars, req >>

\* The loop's test fails: the chunks are returned.
ChunkTextReturn ==
    /\ last.op = "chunk_text"
    /\ last.at = "loop"
    /\ last.start >= Len(processor.text)
    /\ last' = [last EXCEPT !.at = "returned"]
    /\ UNCHANGED << client_vars, thread_vars, object_vars, req >>

NextChunk == ChunkTextCall \/ ChunkTextIterate \/ ChunkTextReturn
SpecChunk == InitChunk /\ [][NextChunk]_vars

\* A run of two or more consecutive whitespace characters in s.
HasWhitespaceRun(s) ==
    \E i \in 1..(Len(s) - 1) : CharAt(s, i) \in SpaceSet /\ CharAt(s, i + 1) \in SpaceSet

\* C27: the text _clean_text returns has no run of two or more whitespace
\* characters and no "Page N of M" marker, and cleaning it a second time
\* leaves it unchanged.
C27_CleanupNormalizes ==
    last.op = "_clean_text" =>
        /\ ~HasWhitespaceRun(last.out)
        /\ re_count(page_of_pattern, last.out) = 0
        /\ (last.n = 2 => last.out = last.text)

\* C28: for chunk_size > overlap >= 0, from one iteration of chunk_text's
\* loop to the next the start offset strictly increases and is never
\* negative, so that the loop ends.
C28_StartIncreases ==
    [][ChunkTextIterate => last'.start > last.start /\ last'.start >= 0]_vars

\* The document type is the type of one of the returned rule_based_scores.
IsScoredType(result) ==
    \E k \in 1..Len(result.rule_based_scores) :
        result.rule_based_scores[k].type = result.document_type

\* The document type is named (in any letter case) by the text the
\* completion service returned.
NamedByService(result, svc) ==
    /\ result.method = "AI-enhanced"
    /\ ~svc.fails
    /\ str_in(str_lower(result.document_type), str_lower(svc.text))

\* C29: whatever the text, use_ai and the completion service's reply or
\* failure, the document_type classify_document returns is a catalog key,
\* and it is a key of rule_based_scores or a catalog key the reply names; it
\* is never "Unknown".  When every type scores 0 and use_ai is false, it is
\* the first catalog entry, with confidence 0.
C29_TypeIsCatalogKey ==
    last.op = "classify_document" =>
        /\ last.out.result.document_type \in CatalogKeys
        /\ last.out.result.document_type # "Unknown"
        /\ IsScoredType(last.out.result) \/ NamedByService(last.out.result, last.svc)
        /\ (/\ ~last.use_ai
            /\ \A i \in 1..NumTypes : _rule_based_classification(last.text)[i] = 0)
              => /\ last.out.result.document_type = document_signatures[1].name
                 /\ last.out.result.confidence = 0

\* The service's reply names a catalog key that is not among the three
\* best-scored types, and that key is the result.
C29_Witness ==
    /\ last.op = "classify_document"
    /\ last.out.result.method = "AI-enhanced"
    /\ NamedByService(last.out.result, last.svc)
    /\ last.out.result.document_type = "Loan Agreement"
    /\ ~IsScoredType(last.out.result)

\* C30: in every record simplify_clause returns, on the success path and on
\* the failure path, original_length is the length of original and
\* simplified_length is the length of simplified.
C30_LengthsMatchFields ==
    last.op = "simplify_clause" =>
        /\ last.out.value.original_length = Len(last.out.value.original)
        /\ last.out.value.simplified_length = Len(last.out.value.simplified)

=============================================================================
